---- MODULE Spec2Model ----
(***************************************************************************)
(* Compensation engine of SuperAdPro: course pass-up commissions           *)
(* (app/course_engine.py), the grid engine (app/grid.py) and the payment   *)
(* handlers with the activation cascade (app/payment.py).                  *)
(*                                                                         *)
(* Persistence is modelled as SQLAlchemy gives it to the handlers: `db` is *)
(* the committed database, `sess` is what the handler's session sees       *)
(* (committed rows plus its flushed and pending writes); db.commit()       *)
(* copies sess to db, and closing the session without a commit (an         *)
(* exception leaving the handler, a process crash) throws sess away.       *)
(* Handlers run one at a time; a handler is a small-step process whose     *)
(* position is `pc` and whose local variables are `loc`, so that the loops *)
(* over the sponsor chain advance one hop per step.  SpecRace alone runs   *)
(* two requests at once, each with its own session over the committed      *)
(* rows (read committed, no row locks), and there sess, pc and loc are     *)
(* functions of the request.                                               *)
(*                                                                         *)
(* Money is counted in the smallest unit of the Money columns,             *)
(* Numeric(18, 6): one millionth of a USDT.  The Grid row's cycle counter  *)
(* carries the name grid.py reads and writes (cycle_number); the column    *)
(* declaration in database.py names it advance_number.  The model follows  *)
(* grid.py and leaves the mapping of attributes to columns out.            *)
(*                                                                         *)
(* The amounts a caller passes to request_withdrawal and to                *)
(* process_p2p_transfer are values of the same fixed-point unit; on them   *)
(* round(x, 6) changes nothing.  Dates are whole days, and the time a      *)
(* renewal sweep reads is never before a time already written to a         *)
(* MembershipRenewal row.                                                  *)
(***************************************************************************)
EXTENDS Bags, FiniteSets, Integers, Sequences, TLC

VARIABLES db, sess, db0, pc, loc, result

vars == <<db, sess, db0, pc, loc, result>>

None == 0

\* ---------------------------------------------------------------- bounds
MaxBuyers == 3
MaxPurchases == 3
MaxGridTx == 3
MaxMemberTx == 1
ChainExtra == 2
MaxWalletOps == 2
MaxTransfers == 2
MaxDay == 36

\* ------------------------------------------------------ program constants
Micro == 1000000
MaxDepthWalk == 500
MaxDepthCascade == 50
MEMBERSHIP_FEE == 20 * Micro
GRID_WIDTH == 8
GRID_LEVELS == 8
GRID_TOTAL == 63

\* Course catalogue: course c is the course of tier c; prices 100 / 300.
CourseIds == {1, 2}
CoursePrice == [c \in CourseIds |-> IF c = 1 THEN 100 * Micro ELSE 300 * Micro]

\* GRID_PACKAGES, in whole USDT.
GRID_PACKAGES == [t \in 1..8 |-> CASE t = 1 -> 20 [] t = 2 -> 50 [] t = 3 -> 100
                                   [] t = 4 -> 200 [] t = 5 -> 400 [] t = 6 -> 600
                                   [] t = 7 -> 800 [] OTHER -> 1000]

\* ---------------------------------------------------------------- helpers
Ids(s) == DOMAIN s.users

BagAdd(b, e) == b (+) SetToBag({e})

RECURSIVE SumOver(_, _)
SumOver(S, f) == IF S = {} THEN 0
                 ELSE LET e == CHOOSE x \in S : TRUE
                      IN f[e] + SumOver(S \ {e}, f)

\* Sum of the field `amount` over the rows of a bag of rows.
BagAmount(b) == SumOver(BagToSet(b), [e \in BagToSet(b) |-> e.amount * CopiesIn(e, b)])

\* The rows of bag b that bag a does not hold.
BagNew(b, a) == b (-) a

NewUser(sp, adm, act, bal) ==
    [sponsor_id |-> sp, is_admin |-> adm, is_active |-> act, balance |-> bal,
     total_earned |-> 0, total_team |-> 0, personal_referrals |-> 0]

NoTracker == [exists |-> FALSE, sales_count |-> 0, first_passed_up |-> FALSE]

EmptyStore(users) ==
    [users |-> users,
     purchases |-> EmptyBag,
     course_commissions |-> EmptyBag,
     trackers |-> [k \in (DOMAIN users) \X CourseIds |-> NoTracker],
     payments |-> {},
     grids |-> << >>,
     positions |-> {},
     commissions |-> EmptyBag]

Idle == [op |-> "none"]

\* What the last call handed to its caller: a result dict, or an exception
\* (raised) that left the handler.
Result(op, success, error, raised, tx) ==
    [op |-> op, success |-> success, error |-> error, raised |-> raised, tx |-> tx]

\* db.query(User).filter(User.is_admin == True).first()
FirstAdmin(s) ==
    LET A == {u \in Ids(s) : s.users[u].is_admin}
    IN IF A = {} THEN None ELSE CHOOSE u \in A : \A v \in A : u <= v

Credit(s, u, amount) ==
    [s EXCEPT !.users[u].balance = @ + amount,
              !.users[u].total_earned = @ + amount]

\* ------------------------------------------------------- course engine
Tracker(s, u, t) == s.trackers[<<u, t>>]

get_or_create_tracker(s, user_id, course_tier) ==
    IF Tracker(s, user_id, course_tier).exists THEN s
    ELSE [s EXCEPT !.trackers[<<user_id, course_tier>>] =
              [exists |-> TRUE, sales_count |-> 0, first_passed_up |-> FALSE]]

user_owns_tier(s, user_id, course_tier) ==
    \E p \in BagToSet(s.purchases) :
        p.user_id = user_id /\ p.course_tier >= course_tier

_credit_earner(s, buyer_id, tier, earner, amount, commission_type, depth) ==
    LET c == [buyer_id |-> buyer_id, course_tier |-> tier, earner_id |-> earner,
              amount |-> amount, commission_type |-> commission_type,
              pass_up_depth |-> depth]
    IN [Credit(s, earner, amount) EXCEPT !.course_commissions = BagAdd(@, c)]

_credit_platform_noentry(s, buyer_id, tier, amount) ==
    LET admin == FirstAdmin(s)
    IN IF admin # None THEN Credit(s, admin, amount) ELSE s

_credit_platform(s, buyer_id, tier, amount) ==
    LET admin == FirstAdmin(s)
        c == [buyer_id |-> buyer_id, course_tier |-> tier, earner_id |-> admin,
              amount |-> amount, commission_type |-> "platform",
              pass_up_depth |-> 0]
        s1 == [s EXCEPT !.course_commissions = BagAdd(@, c)]
    IN IF admin # None THEN Credit(s1, admin, amount) ELSE s1

\* Locals of a course purchase after the purchase row is flushed.
CourseLoc(op, buyer_id, tier, sponsor, current_id, none0) ==
    [op |-> op, buyer_id |-> buyer_id, tier |-> tier, sponsor |-> sponsor,
     current_id |-> current_id, depth |-> 0, none0 |-> none0,
     earner |-> None, walked |-> FALSE]

\* The qualification test of _find_passup_recipient, without its writes.
PassupQualified(s, u, t) ==
    \/ s.users[u].is_admin
    \/ /\ user_owns_tier(s, u, t)
       /\ \/ Tracker(s, u, t).first_passed_up
          \/ Tracker(s, u, t).sales_count > 0

_distribute_commission_unqualified(s, buyer_id, tier, amount) ==
    LET sponsor_id == s.users[buyer_id].sponsor_id
    IN IF sponsor_id = None \/ sponsor_id \notin Ids(s)
       THEN [pc |-> "course_commit",
             loc |-> CourseLoc("course", buyer_id, tier, sponsor_id, None, FALSE),
             sess |-> _credit_platform(s, buyer_id, tier, amount)]
       ELSE LET s1 == get_or_create_tracker(s, sponsor_id, tier)
                first == ~ Tracker(s1, sponsor_id, tier).first_passed_up
                s2 == [s1 EXCEPT !.trackers[<<sponsor_id, tier>>].sales_count = @ + 1,
                                 !.trackers[<<sponsor_id, tier>>].first_passed_up = TRUE]
                up == s.users[sponsor_id].sponsor_id
            IN IF first
               THEN [pc |-> "passup",
                     loc |-> CourseLoc("course", buyer_id, tier, sponsor_id, up,
                                \A u \in Ids(s2) : ~ PassupQualified(s2, u, tier)),
                     sess |-> s2]
               ELSE IF user_owns_tier(s2, sponsor_id, tier) \/ TRUE
               THEN [pc |-> "course_commit",
                     loc |-> CourseLoc("course", buyer_id, tier, sponsor_id, None, FALSE),
                     sess |-> _credit_earner(s2, buyer_id, tier, sponsor_id, amount,
                                            "direct_sale", 0)]
               ELSE [pc |-> "upline",
                     loc |-> CourseLoc("course", buyer_id, tier, sponsor_id, up,
                                \A u \in Ids(s2) : ~ user_owns_tier(s2, u, tier)),
                     sess |-> s2]

\* _distribute_commission up to the first loop test of a walk, or to the
\* credit when no walk is needed.  Yields the next pc, locals and session.
_distribute_commission(s, buyer_id, tier, amount) ==
    LET sponsor_id == s.users[buyer_id].sponsor_id
    IN IF sponsor_id = None \/ sponsor_id \notin Ids(s)
       THEN [pc |-> "course_commit",
             loc |-> CourseLoc("course", buyer_id, tier, sponsor_id, None, FALSE),
             sess |-> _credit_platform(s, buyer_id, tier, amount)]
       ELSE LET s1 == get_or_create_tracker(s, sponsor_id, tier)
                first == ~ Tracker(s1, sponsor_id, tier).first_passed_up
                s2 == [s1 EXCEPT !.trackers[<<sponsor_id, tier>>].sales_count = @ + 1,
                                 !.trackers[<<sponsor_id, tier>>].first_passed_up = TRUE]
                up == s.users[sponsor_id].sponsor_id
            IN IF first
               THEN [pc |-> "passup",
                     loc |-> CourseLoc("course", buyer_id, tier, sponsor_id, up,
                                \A u \in Ids(s2) : ~ PassupQualified(s2, u, tier)),
                     sess |-> s2]
               ELSE IF user_owns_tier(s2, sponsor_id, tier)
               THEN [pc |-> "course_commit",
                     loc |-> CourseLoc("course", buyer_id, tier, sponsor_id, None, FALSE),
                     sess |-> _credit_earner(s2, buyer_id, tier, sponsor_id, amount,
                                            "direct_sale", 0)]
               ELSE [pc |-> "upline",
                     loc |-> CourseLoc("course", buyer_id, tier, sponsor_id, up,
                                \A u \in Ids(s2) : ~ user_owns_tier(s2, u, tier)),
                     sess |-> s2]

\* Inputs of process_course_purchase: a wallet purchase without reference,
\* or an externally paid one carrying a reference.
PayInputs == {<<"wallet", None>>, <<"crypto", 1>>}

Buyers == 0..MaxBuyers

CourseFail(error) ==
    /\ result' = Result("course", FALSE, error, FALSE, None)
    /\ db0' = db
    /\ UNCHANGED <<db, sess, pc, loc>>

process_course_purchase_again(buyer_id, course_id, payment_method, tx_ref) ==
    /\ pc = "idle"
    /\ BagCardinality(sess.purchases) < MaxPurchases
    /\ IF buyer_id \notin Ids(sess) THEN CourseFail("Buyer not found")
       ELSE IF course_id \notin CourseIds THEN CourseFail("Course not found or inactive")
       ELSE IF payment_method = "wallet"
               /\ sess.users[buyer_id].balance < CoursePrice[course_id]
       THEN CourseFail("Insufficient balance")
       ELSE LET price == CoursePrice[course_id]
                purchase == [user_id |-> buyer_id, course_tier |-> course_id,
                             payment_method |-> payment_method, tx_ref |-> tx_ref]
                s1 == [sess EXCEPT !.purchases = BagAdd(@, purchase)]
                s2 == IF payment_method = "wallet"
                      THEN [s1 EXCEPT !.users[buyer_id].balance = @ - price]
                      ELSE s1
                d == _distribute_commission(s2, buyer_id, course_id, price)
            IN /\ sess' = d.sess
               /\ pc' = d.pc
               /\ loc' = [d.loc EXCEPT !.op = "course"] @@ [tx_ref |-> tx_ref]
               /\ db0' = db
               /\ result' = Result("course", FALSE, "running", FALSE, None)
               /\ UNCHANGED db

process_course_purchase(buyer_id, course_id, payment_method, tx_ref) ==
    /\ pc = "idle"
    /\ BagCardinality(sess.purchases) < MaxPurchases
    /\ IF buyer_id \notin Ids(sess) THEN CourseFail("Buyer not found")
       ELSE IF course_id \notin CourseIds THEN CourseFail("Course not found or inactive")
       ELSE IF \E p \in BagToSet(sess.purchases) :
                   p.user_id = buyer_id /\ p.course_tier = course_id
       THEN CourseFail("Already purchased")
       ELSE IF payment_method = "wallet"
               /\ sess.users[buyer_id].balance < CoursePrice[course_id]
       THEN CourseFail("Insufficient balance")
       ELSE LET price == CoursePrice[course_id]
                purchase == [user_id |-> buyer_id, course_tier |-> course_id,
                             payment_method |-> payment_method, tx_ref |-> tx_ref]
                s1 == [sess EXCEPT !.purchases = BagAdd(@, purchase)]
                s2 == IF payment_method = "wallet"
                      THEN [s1 EXCEPT !.users[buyer_id].balance = @ - price]
                      ELSE s1
                d == _distribute_commission(s2, buyer_id, course_id, price)
            IN /\ sess' = d.sess
               /\ pc' = d.pc
               /\ loc' = [d.loc EXCEPT !.op = "course"] @@ [tx_ref |-> tx_ref]
               /\ db0' = db
               /\ result' = Result("course", FALSE, "running", FALSE, None)
               /\ UNCHANGED db

\* One iteration of the loop of _find_passup_recipient, loop test included.
\* done: the function returns; earner is its first result (None: nobody).
passup_hop_noflag(s, current_id, depth, course_tier, max_depth) ==
    IF current_id = None \/ depth >= max_depth \/ current_id \notin Ids(s)
    THEN [done |-> TRUE, earner |-> None, current_id |-> current_id, sess |-> s,
          depth |-> IF current_id # None /\ depth < max_depth THEN depth + 1 ELSE depth]
    ELSE IF s.users[current_id].is_admin
    THEN [done |-> TRUE, earner |-> current_id, current_id |-> current_id,
          sess |-> s, depth |-> depth + 1]
    ELSE IF ~ user_owns_tier(s, current_id, course_tier)
    THEN [done |-> FALSE, earner |-> None, sess |-> s, depth |-> depth + 1,
          current_id |-> s.users[current_id].sponsor_id]
    ELSE LET s1 == get_or_create_tracker(s, current_id, course_tier)
             t == Tracker(s1, current_id, course_tier)
         IN IF t.first_passed_up \/ t.sales_count > 0
            THEN [done |-> TRUE, earner |-> current_id, current_id |-> current_id,
                  sess |-> s1, depth |-> depth + 1]
            ELSE [done |-> FALSE, earner |-> None, depth |-> depth + 1,
                  current_id |-> s.users[current_id].sponsor_id,
                  sess |-> [s1 EXCEPT
                      !.trackers[<<current_id, course_tier>>].sales_count = @ + 1]]

passup_hop(s, current_id, depth, course_tier, max_depth) ==
    IF current_id = None \/ depth >= max_depth \/ current_id \notin Ids(s)
    THEN [done |-> TRUE, earner |-> None, current_id |-> current_id, sess |-> s,
          depth |-> IF current_id # None /\ depth < max_depth THEN depth + 1 ELSE depth]
    ELSE IF s.users[current_id].is_admin
    THEN [done |-> TRUE, earner |-> current_id, current_id |-> current_id,
          sess |-> s, depth |-> depth + 1]
    ELSE IF ~ user_owns_tier(s, current_id, course_tier)
    THEN [done |-> FALSE, earner |-> None, sess |-> s, depth |-> depth + 1,
          current_id |-> s.users[current_id].sponsor_id]
    ELSE LET s1 == get_or_create_tracker(s, current_id, course_tier)
             t == Tracker(s1, current_id, course_tier)
         IN IF t.first_passed_up \/ t.sales_count > 0
            THEN [done |-> TRUE, earner |-> current_id, current_id |-> current_id,
                  sess |-> s1, depth |-> depth + 1]
            ELSE [done |-> FALSE, earner |-> None, depth |-> depth + 1,
                  current_id |-> s.users[current_id].sponsor_id,
                  sess |-> [s1 EXCEPT
                      !.trackers[<<current_id, course_tier>>].sales_count = @ + 1,
                      !.trackers[<<current_id, course_tier>>].first_passed_up = TRUE]]

\* One iteration of the loop of find_qualified_upline, loop test included.
upline_hop(s, current_id, depth, course_tier, max_depth) ==
    IF current_id = None \/ depth >= max_depth \/ current_id \notin Ids(s)
    THEN [done |-> TRUE, earner |-> None, current_id |-> current_id, sess |-> s,
          depth |-> IF current_id # None /\ depth < max_depth THEN depth + 1 ELSE depth]
    ELSE IF user_owns_tier(s, current_id, course_tier)
    THEN [done |-> TRUE, earner |-> current_id, current_id |-> current_id,
          sess |-> s, depth |-> depth + 1]
    ELSE [done |-> FALSE, earner |-> None, sess |-> s, depth |-> depth + 1,
          current_id |-> s.users[current_id].sponsor_id]

WalkStep_depth0(r) ==
    /\ loc' = [loc EXCEPT !.current_id = r.current_id, !.depth = r.depth,
                          !.earner = r.earner, !.walked = r.done]
    /\ IF r.done
       THEN /\ pc' = "course_commit"
            /\ sess' = IF r.earner # None
                       THEN _credit_earner(r.sess, loc.buyer_id, loc.tier, r.earner,
                                          CoursePrice[loc.tier], "pass_up", 0)
                       ELSE _credit_platform(r.sess, loc.buyer_id, loc.tier,
                                            CoursePrice[loc.tier])
       ELSE /\ pc' = pc
            /\ sess' = r.sess
    /\ UNCHANGED <<db, db0, result>>

\* The walk's result handed back to _distribute_commission, which credits
\* the earner found (type pass_up) or the platform.
WalkStep(r) ==
    /\ loc' = [loc EXCEPT !.current_id = r.current_id, !.depth = r.depth,
                          !.earner = r.earner, !.walked = r.done]
    /\ IF r.done
       THEN /\ pc' = "course_commit"
            /\ sess' = IF r.earner # None
                       THEN _credit_earner(r.sess, loc.buyer_id, loc.tier, r.earner,
                                          CoursePrice[loc.tier], "pass_up", r.depth)
                       ELSE _credit_platform(r.sess, loc.buyer_id, loc.tier,
                                            CoursePrice[loc.tier])
       ELSE /\ pc' = pc
            /\ sess' = r.sess
    /\ UNCHANGED <<db, db0, result>>

_find_passup_recipient_noconsume ==
    /\ pc = "passup"
    /\ WalkStep(upline_hop(sess, loc.current_id, loc.depth, loc.tier, MaxDepthWalk))

_find_passup_recipient ==
    /\ pc = "passup"
    /\ WalkStep(passup_hop(sess, loc.current_id, loc.depth, loc.tier, MaxDepthWalk))

find_qualified_upline ==
    /\ pc = "upline"
    /\ WalkStep(upline_hop(sess, loc.current_id, loc.depth, loc.tier, MaxDepthWalk))

\* db.commit() and the return of process_course_purchase.
course_commit ==
    /\ pc = "course_commit"
    /\ db' = sess
    /\ pc' = "idle"
    /\ result' = Result("course", TRUE, "none", FALSE, None)
    /\ UNCHANGED <<sess, db0, loc>>

NextCourse ==
    \/ \E b \in Buyers, c \in CourseIds \cup {0}, m \in PayInputs :
           process_course_purchase(b, c, m[1], m[2])
    \/ _find_passup_recipient
    \/ find_qualified_upline
    \/ course_commit

\* Sponsor forests over 1..n in which member i was referred by i+1.
CourseMembers == 1..4

ChainUsers(n, adminTop) ==
    [i \in 1..n |-> NewUser(IF i < n THEN i + 1 ELSE None, adminTop /\ i = n,
                            TRUE, 100 * Micro)]

\* Members 1 and 2 were both referred by member 3; above 3 a chain.
SiblingUsers(n, adminTop) ==
    [ChainUsers(n, adminTop) EXCEPT ![1].sponsor_id = 3]

CourseGraphs ==
    { ChainUsers(4, TRUE),
      ChainUsers(4, FALSE),
      SiblingUsers(4, TRUE),
      \* member 1 came without a referrer
      [SiblingUsers(4, TRUE) EXCEPT ![1].sponsor_id = None],
      \* member 1's sponsor row is missing
      [ChainUsers(4, TRUE) EXCEPT ![1].sponsor_id = 99] }

InitWith(users) ==
    /\ db = EmptyStore(users)
    /\ sess = db
    /\ db0 = db
    /\ pc = "idle"
    /\ loc = Idle
    /\ result = Result("none", FALSE, "none", FALSE, None)

InitCourse == \E g \in CourseGraphs : InitWith(g)

SpecCourse == InitCourse /\ [][NextCourse]_vars

\* ------------------------------------------------ the walks at their bound
\* Sponsor graphs the registration code does not produce but the walks are
\* written to survive: a chain longer than max_depth and cycles.
NLong == MaxDepthWalk + 3 + ChainExtra

WalkUser(sp, adm) == NewUser(sp, adm, TRUE, 0)

WalkGraphs ==
    { \* 1 and 2 under 3, then a chain of more than max_depth members
      [i \in 1..NLong |-> WalkUser(IF i <= 2 THEN 3 ELSE IF i < NLong THEN i + 1 ELSE None,
                                   FALSE)],
      \* the same chain with the platform admin at its top
      [i \in 1..NLong |-> WalkUser(IF i <= 2 THEN 3 ELSE IF i < NLong THEN i + 1 ELSE None,
                                   i = NLong)],
      \* 1 and 2 under 3; 3 and 4 sponsor each other
      [i \in CourseMembers |-> WalkUser(IF i <= 2 THEN 3 ELSE IF i = 3 THEN 4 ELSE 3, FALSE)],
      \* 1 under 2, and 2, 3 sponsor each other; 4 is its own sponsor
      [i \in CourseMembers |-> WalkUser(IF i = 1 THEN 2 ELSE IF i = 2 THEN 3
                                     ELSE IF i = 3 THEN 2 ELSE i, FALSE)] }

InitWalk == \E g \in WalkGraphs : InitWith(g)

NextWalk ==
    \/ \E b \in 1..MaxBuyers : process_course_purchase(b, 1, "crypto", 1)
    \/ _find_passup_recipient
    \/ find_qualified_upline
    \/ course_commit

SpecWalk == InitWalk /\ [][NextWalk]_vars

\* ---------------------------------------------------------- grid engine
\* Percentages of database.py, in hundredths (LEVEL_PCT in ten-thousandths).
OWNER_PCT == 40
UPLINE_PCT == 55
COMPANY_PCT == 5
LEVEL_PCT == 875

\* round(a * p / q, 6) for an amount a in millionths; the product is taken
\* in two parts to stay inside machine integers.
MulPct(a, p, q) == (a \div q) * p + (2 * ((a % q) * p) + q) \div (2 * q)

GridPrice(package_tier) == GRID_PACKAGES[package_tier] * Micro

GridIds(s) == 1..Len(s.grids)

CommissionTotal(b) ==
    SumOver(BagToSet(b), [e \in BagToSet(b) |-> e.amount_usdt * CopiesIn(e, b)])

_next_cycle_number(s, owner_id, package_tier) ==
    Cardinality({g \in GridIds(s) : /\ s.grids[g].owner_id = owner_id
                                    /\ s.grids[g].package_tier = package_tier
                                    /\ s.grids[g].is_complete}) + 1

NewGrid(owner_id, package_tier, cycle_number) ==
    [owner_id |-> owner_id, package_tier |-> package_tier,
     cycle_number |-> cycle_number, positions_filled |-> 0,
     is_complete |-> FALSE, owner_paid |-> FALSE, revenue_total |-> 0]

OpenGrids(s, owner_id, package_tier) ==
    {g \in GridIds(s) : /\ s.grids[g].owner_id = owner_id
                        /\ s.grids[g].package_tier = package_tier
                        /\ ~ s.grids[g].is_complete}

\* The open grid of (owner, tier); a new grid row is created, and the
\* session committed, when there is none.
get_or_create_active_grid(s, owner_id, package_tier) ==
    LET open == OpenGrids(s, owner_id, package_tier)
    IN IF open # {}
       THEN [sess |-> s, created |-> FALSE,
             grid_id |-> CHOOSE g \in open : \A h \in open : g <= h]
       ELSE [sess |-> [s EXCEPT !.grids = Append(@,
                          NewGrid(owner_id, package_tier,
                                  _next_cycle_number(s, owner_id, package_tier)))],
             created |-> TRUE,
             grid_id |-> Len(s.grids) + 1]

FilledAt(s, grid_id, level) ==
    Cardinality({gp \in s.positions : gp.grid_id = grid_id /\ gp.grid_level = level})

\* <<level, position>> of the next free slot, <<None, None>> when every
\* level holds GRID_WIDTH members.
_next_slot(s, grid_id) ==
    LET free == {l \in 1..GRID_LEVELS : FilledAt(s, grid_id, l) < GRID_WIDTH}
    IN IF free = {} THEN <<None, None>>
       ELSE LET level == CHOOSE l \in free : \A m \in free : l <= m
            IN <<level, FilledAt(s, grid_id, level) + 1>>

_record_commission(s, grid_id, to_user_id, amount, comm_type) ==
    [s EXCEPT !.commissions = BagAdd(@,
        [to_user_id |-> to_user_id, grid_id |-> grid_id, amount_usdt |-> amount,
         commission_type |-> comm_type])]

CreditIfUser(s, u, amount) == IF u \in Ids(s) THEN Credit(s, u, amount) ELSE s

_pay_level_commission(s, grid_id, level, price) ==
    LET amount == MulPct(price, LEVEL_PCT, 10000 * GRID_LEVELS)
        owner_id == s.grids[grid_id].owner_id
    IN _record_commission(CreditIfUser(s, owner_id, amount), grid_id, owner_id,
                          amount, "level_pool")

_get_upline_id(s, user_id) ==
    IF user_id \in Ids(s) THEN s.users[user_id].sponsor_id ELSE None

_complete_grid_nospawn(s, grid_id) ==
    [s EXCEPT !.grids[grid_id].is_complete = TRUE,
              !.grids[grid_id].owner_paid = TRUE]

_complete_grid(s, grid_id) ==
    LET g == s.grids[grid_id]
        total_revenue == g.revenue_total
        owner_amount == MulPct(total_revenue, OWNER_PCT, 100)
        upline_amount == MulPct(total_revenue, UPLINE_PCT, 100)
        company_amount == MulPct(total_revenue, COMPANY_PCT, 100)
        upline_id == _get_upline_id(s, g.owner_id)
        s1 == [s EXCEPT !.grids[grid_id].is_complete = TRUE]
        s2 == _record_commission(CreditIfUser(s1, g.owner_id, owner_amount),
                                 grid_id, g.owner_id, owner_amount, "grid_owner")
        s3 == IF upline_id # None
              THEN _record_commission(CreditIfUser(s2, upline_id, upline_amount),
                                      grid_id, upline_id, upline_amount, "upline")
              ELSE _record_commission(s2, grid_id, None, upline_amount, "company")
        s4 == _record_commission(s3, grid_id, None, company_amount, "company")
    IN [s4 EXCEPT !.grids = Append(@, NewGrid(g.owner_id, g.package_tier,
                                              g.cycle_number + 1)),
                  !.grids[grid_id].owner_paid = TRUE]

PlaceFailed(error) == [success |-> FALSE, error |-> error]

\* place_member_in_grid from the slot search to its commit, on the grid
\* that get_or_create_active_grid returned.  Yields the session to commit
\* and the function's result dict.
place_in_grid(s, member_id, grid_id, is_overspill) ==
    LET g == s.grids[grid_id]
        price == GridPrice(g.package_tier)
        slot == _next_slot(s, grid_id)
        gp == [grid_id |-> grid_id, member_id |-> member_id, grid_level |-> slot[1],
               position_num |-> slot[2], is_overspill |-> is_overspill]
        s1 == [s EXCEPT !.positions = @ \cup {gp},
                        !.grids[grid_id].positions_filled = @ + 1,
                        !.grids[grid_id].revenue_total = @ + price]
        s2 == IF g.owner_id \in Ids(s1)
              THEN [s1 EXCEPT !.users[g.owner_id].total_team = @ + 1]
              ELSE s1
        s3 == _pay_level_commission(s2, grid_id, slot[1], price)
        complete == s3.grids[grid_id].positions_filled >= GRID_TOTAL
    IN IF slot[1] = None
       THEN [sess |-> s, place |-> PlaceFailed("Grid unexpectedly full")]
       ELSE [sess |-> IF complete THEN _complete_grid(s3, grid_id) ELSE s3,
             place |-> [success |-> TRUE, grid_id |-> grid_id, grid_level |-> slot[1],
                        position |-> slot[2], cycle |-> g.cycle_number,
                        filled |-> s3.grids[grid_id].positions_filled,
                        complete |-> complete]]

\* ------------------------------------------------------ payment handlers
TxHashes(s) == {p.tx_hash : p \in s.payments}

\* Transaction hashes are <<member, k, hop>>: the k-th hash member u hands
\* in, hop 0; the audit rows of a cascade carry the hash with the hop's
\* depth (f"{tx_hash}_cascade_{chain_depth}").
SentBy(s, u) == Cardinality({p \in s.payments : p.tx_hash[1] = u /\ p.tx_hash[3] = 0})

\* Hashes a call may carry: the caller's next unused one, or the last one
\* any member has had processed.
TxInputs(s, u) ==
    {<<u, SentBy(s, u) + 1, 0>>}
        \cup {<<v, SentBy(s, v), 0>> : v \in {w \in Ids(s) : SentBy(s, w) > 0}}

PaymentsOf(s, payment_type) == {p \in s.payments : p.payment_type = payment_type}

\* Seats of owner 1's first grid that are taken when the model starts.
PrefilledSeats == GRID_TOTAL - 2

AlreadyProcessed_never(s, tx_hash) == FALSE

\* db.query(Payment).filter(Payment.tx_hash == tx_hash).first()
AlreadyProcessed(s, tx_hash) == \E p \in s.payments : p.tx_hash = tx_hash

\* The Payment row of a grid purchase; its payment_type,
\* f"grid_tier_{package_tier}", is kept as two fields.
GridPaymentRow(user_id, package_tier, tx_hash) ==
    [tx_hash |-> tx_hash, from_user_id |-> user_id, to_user_id |-> None,
     amount_usdt |-> GridPrice(package_tier), payment_type |-> "grid",
     package_tier |-> package_tier]

\* A handler hands a result dict with success False to the route.
PayFail(op, error, tx_hash) ==
    /\ result' = Result(op, FALSE, error, FALSE, tx_hash)
    /\ pc' = "returned"
    /\ db0' = db
    /\ UNCHANGED <<db, sess, loc>>

\* process_grid_payment up to the first call of place_member_in_grid.
\* verified is the answer of verify_transaction.
process_grid_payment(user_id, package_tier, tx_hash, verified) ==
    /\ pc = "idle"
    /\ Cardinality(PaymentsOf(sess, "grid")) < PrefilledSeats + MaxGridTx
    /\ IF AlreadyProcessed(sess, tx_hash)
       THEN PayFail("grid", "Transaction already processed", tx_hash)
       ELSE IF user_id \notin Ids(sess) THEN PayFail("grid", "User not found", tx_hash)
       ELSE IF ~ sess.users[user_id].is_active
       THEN PayFail("grid", "Membership not active", tx_hash)
       ELSE IF package_tier \notin DOMAIN GRID_PACKAGES
       THEN PayFail("grid", "Invalid package tier", tx_hash)
       ELSE IF ~ verified THEN PayFail("grid", "Payment not verified", tx_hash)
       ELSE LET payment == GridPaymentRow(user_id, package_tier, tx_hash)
                admin == FirstAdmin(sess)
                sponsor_id == IF sess.users[user_id].sponsor_id # None
                              THEN sess.users[user_id].sponsor_id
                              ELSE IF admin # None THEN admin ELSE 1
            IN /\ sess' = [sess EXCEPT !.payments = @ \cup {payment}]
               /\ pc' = "place"
               /\ loc' = [op |-> "grid", user_id |-> user_id,
                          package_tier |-> package_tier, tx_hash |-> tx_hash,
                          sponsor_id |-> sponsor_id, owner_id |-> sponsor_id,
                          is_overspill |-> FALSE, current_id |-> None,
                          visited |-> {}, grid_id |-> None,
                          place |-> PlaceFailed("none")]
               /\ db0' = db
               /\ result' = Result("grid", FALSE, "running", FALSE, tx_hash)
               /\ UNCHANGED db

\* place_member_in_grid up to the return of get_or_create_active_grid, which
\* commits the session when it has to create the grid.
place_member_in_grid ==
    /\ pc = "place"
    /\ IF loc.user_id = loc.owner_id
       THEN /\ loc' = [loc EXCEPT !.place = PlaceFailed("Cannot join your own grid")]
            /\ pc' = IF loc.is_overspill THEN "overspill_next" ELSE "placed"
            /\ UNCHANGED <<db, sess>>
       ELSE LET r == get_or_create_active_grid(sess, loc.owner_id, loc.package_tier)
            IN /\ sess' = r.sess
               /\ db' = IF r.created THEN r.sess ELSE db
               /\ loc' = [loc EXCEPT !.grid_id = r.grid_id]
               /\ pc' = "fill"
    /\ UNCHANGED <<db0, result>>

\* The rest of place_member_in_grid: the seat, the counters, the level pool
\* commission, the completion, db.commit().
fill_seat ==
    /\ pc = "fill"
    /\ LET r == place_in_grid(sess, loc.user_id, loc.grid_id, loc.is_overspill)
       IN /\ loc' = [loc EXCEPT !.place = r.place]
          /\ IF r.place.success
             THEN /\ sess' = r.sess
                  /\ db' = r.sess
                  /\ pc' = IF loc.is_overspill THEN "commit" ELSE "placed"
             ELSE /\ pc' = IF loc.is_overspill THEN "overspill_next" ELSE "placed"
                  /\ UNCHANGED <<db, sess>>
    /\ UNCHANGED <<db0, result>>

\* process_grid_payment after its own call of place_member_in_grid, and the
\* loop of _find_overspill_placement: its test, and the move to the upline
\* after a placement that failed.
_find_overspill_placement ==
    /\ pc \in {"placed", "overspill", "overspill_next"}
    /\ CASE pc = "placed" ->
              IF loc.place.success
              THEN /\ pc' = "commit"
                   /\ loc' = loc
              ELSE /\ pc' = "overspill"
                   /\ loc' = [loc EXCEPT !.is_overspill = TRUE,
                                         !.current_id = loc.sponsor_id,
                                         !.visited = {}]
         [] pc = "overspill" ->
              IF loc.current_id # None /\ loc.current_id \notin loc.visited
              THEN /\ pc' = "place"
                   /\ loc' = [loc EXCEPT !.visited = @ \cup {loc.current_id},
                                         !.owner_id = loc.current_id]
              ELSE /\ pc' = "commit"
                   /\ loc' = [loc EXCEPT
                                !.place = PlaceFailed("No available grid in upline")]
         [] pc = "overspill_next" ->
              /\ pc' = "overspill"
              /\ loc' = [loc EXCEPT !.current_id =
                            IF loc.current_id \in Ids(sess)
                            THEN sess.users[loc.current_id].sponsor_id ELSE None]
    /\ UNCHANGED <<db, sess, db0, result>>

\* The db.commit() of process_grid_payment and what follows it: the result
\* dict of a placement is read under the key 'advance', which the dict of
\* place_member_in_grid does not hold.
grid_commit ==
    /\ pc = "commit"
    /\ db' = sess
    /\ pc' = "returned"
    /\ result' = IF loc.place.success
                 THEN Result("grid", FALSE, "KeyError: 'advance'", TRUE, loc.tx_hash)
                 ELSE Result("grid", FALSE, "Could not place in any grid", FALSE,
                             loc.tx_hash)
    /\ UNCHANGED <<sess, db0, loc>>

\* The process stops, or an exception leaves the handler: the session is
\* closed and what it had not committed is gone.
crash ==
    /\ pc \notin {"idle", "returned"}
    /\ sess' = db
    /\ pc' = "returned"
    /\ result' = Result(loc.op, FALSE, "crash", TRUE, result.tx)
    /\ UNCHANGED <<db, db0, loc>>

\* The request is over: the route has sent its response and get_db has
\* closed the session; the next request starts from the committed rows.
end_request ==
    /\ pc = "returned"
    /\ pc' = "idle"
    /\ sess' = db
    /\ db0' = db
    /\ loc' = Idle
    /\ result' = Result("none", FALSE, "none", FALSE, None)
    /\ UNCHANGED db

\* process_membership_payment up to its call of _cascade_auto_activation.
process_membership_payment(user_id, tx_hash, verified) ==
    /\ pc = "idle"
    /\ Cardinality(PaymentsOf(sess, "membership")) < MaxMemberTx
    /\ IF AlreadyProcessed(sess, tx_hash)
       THEN PayFail("member", "Transaction already processed", tx_hash)
       ELSE IF user_id \notin Ids(sess) THEN PayFail("member", "User not found", tx_hash)
       ELSE IF ~ verified
       THEN PayFail("member", "Transaction not verified on Base Chain", tx_hash)
       ELSE LET sp == sess.users[user_id].sponsor_id
                sponsor == IF sp # None /\ sp \in Ids(sess) THEN sp ELSE None
                payment == [tx_hash |-> tx_hash, from_user_id |-> user_id,
                            to_user_id |-> sponsor, amount_usdt |-> MEMBERSHIP_FEE,
                            payment_type |-> "membership", package_tier |-> None]
                s1 == [sess EXCEPT !.users[user_id].is_active = TRUE,
                                   !.payments = @ \cup {payment}]
                s2 == IF sponsor # None
                      THEN [Credit(s1, sponsor, MEMBERSHIP_FEE) EXCEPT
                               !.users[sponsor].personal_referrals = @ + 1]
                      ELSE s1
            IN /\ sess' = s2
               /\ pc' = IF sponsor # None THEN "cascade" ELSE "member_commit"
               /\ loc' = [op |-> "member", user_id |-> user_id, tx_hash |-> tx_hash,
                          recipient |-> sponsor, chain_depth |-> 1,
                          activated_users |-> << >>]
               /\ db0' = db
               /\ result' = Result("member", FALSE, "running", FALSE, tx_hash)
               /\ UNCHANGED db

cascade_hop_stays_free(s, recipient, tx_hash, chain_depth, activated_users, max_depth) ==
    IF chain_depth > max_depth \/ s.users[recipient].is_active
          \/ s.users[recipient].balance < MEMBERSHIP_FEE
    THEN [done |-> TRUE, sess |-> s, recipient |-> recipient,
          chain_depth |-> chain_depth, activated_users |-> activated_users]
    ELSE LET sp == s.users[recipient].sponsor_id
             next_recipient == IF sp # None /\ sp \in Ids(s) THEN sp ELSE None
             hop_payment == [tx_hash |-> <<tx_hash[1], tx_hash[2], chain_depth>>,
                             from_user_id |-> recipient, to_user_id |-> next_recipient,
                             amount_usdt |-> MEMBERSHIP_FEE,
                             payment_type |-> "membership_auto",
                             package_tier |-> None]
             s1 == [s EXCEPT !.users[recipient].balance = @ - MEMBERSHIP_FEE,
                             !.payments = @ \cup {hop_payment}]
             s2 == IF next_recipient # None
                   THEN [Credit(s1, next_recipient, MEMBERSHIP_FEE) EXCEPT
                            !.users[next_recipient].personal_referrals = @ + 1]
                   ELSE s1
         IN [done |-> next_recipient = None, sess |-> s2,
             recipient |-> next_recipient,
             chain_depth |-> IF next_recipient # None THEN chain_depth + 1
                             ELSE chain_depth,
             activated_users |-> Append(activated_users, <<recipient, chain_depth>>)]

cascade_hop_unkeyed(s, recipient, tx_hash, chain_depth, activated_users, max_depth) ==
    IF chain_depth > max_depth \/ s.users[recipient].is_active
          \/ s.users[recipient].balance < MEMBERSHIP_FEE
    THEN [done |-> TRUE, sess |-> s, recipient |-> recipient,
          chain_depth |-> chain_depth, activated_users |-> activated_users]
    ELSE LET sp == s.users[recipient].sponsor_id
             next_recipient == IF sp # None /\ sp \in Ids(s) THEN sp ELSE None
             hop_payment == [tx_hash |-> tx_hash,
                             from_user_id |-> recipient, to_user_id |-> next_recipient,
                             amount_usdt |-> MEMBERSHIP_FEE,
                             payment_type |-> "membership_auto",
                             package_tier |-> None]
             s1 == [s EXCEPT !.users[recipient].balance = @ - MEMBERSHIP_FEE,
                             !.users[recipient].is_active = TRUE,
                             !.payments = @ \cup {hop_payment}]
             s2 == IF next_recipient # None
                   THEN [Credit(s1, next_recipient, MEMBERSHIP_FEE) EXCEPT
                            !.users[next_recipient].personal_referrals = @ + 1]
                   ELSE s1
         IN [done |-> next_recipient = None, sess |-> s2,
             recipient |-> next_recipient,
             chain_depth |-> IF next_recipient # None THEN chain_depth + 1
                             ELSE chain_depth,
             activated_users |-> Append(activated_users, <<recipient, chain_depth>>)]

\* One invocation of _cascade_auto_activation, up to its recursive call.
\* done: the invocation returns without recursing, which unwinds the cascade.
cascade_hop(s, recipient, tx_hash, chain_depth, activated_users, max_depth) ==
    IF chain_depth > max_depth \/ s.users[recipient].is_active
          \/ s.users[recipient].balance < MEMBERSHIP_FEE
    THEN [done |-> TRUE, sess |-> s, recipient |-> recipient,
          chain_depth |-> chain_depth, activated_users |-> activated_users]
    ELSE LET sp == s.users[recipient].sponsor_id
             next_recipient == IF sp # None /\ sp \in Ids(s) THEN sp ELSE None
             hop_payment == [tx_hash |-> <<tx_hash[1], tx_hash[2], chain_depth>>,
                             from_user_id |-> recipient, to_user_id |-> next_recipient,
                             amount_usdt |-> MEMBERSHIP_FEE,
                             payment_type |-> "membership_auto",
                             package_tier |-> None]
             s1 == [s EXCEPT !.users[recipient].balance = @ - MEMBERSHIP_FEE,
                             !.users[recipient].is_active = TRUE,
                             !.payments = @ \cup {hop_payment}]
             s2 == IF next_recipient # None
                   THEN [Credit(s1, next_recipient, MEMBERSHIP_FEE) EXCEPT
                            !.users[next_recipient].personal_referrals = @ + 1]
                   ELSE s1
         IN [done |-> next_recipient = None, sess |-> s2,
             recipient |-> next_recipient,
             chain_depth |-> IF next_recipient # None THEN chain_depth + 1
                             ELSE chain_depth,
             activated_users |-> Append(activated_users, <<recipient, chain_depth>>)]

_cascade_auto_activation ==
    /\ pc = "cascade"
    /\ LET r == cascade_hop(sess, loc.recipient, loc.tx_hash, loc.chain_depth,
                            loc.activated_users, MaxDepthCascade)
       IN /\ sess' = r.sess
          /\ loc' = [loc EXCEPT !.recipient = r.recipient,
                                !.chain_depth = r.chain_depth,
                                !.activated_users = r.activated_users]
          /\ pc' = IF r.done THEN "member_commit" ELSE "cascade"
    /\ UNCHANGED <<db, db0, result>>

\* db.commit() and the return of process_membership_payment.
member_commit ==
    /\ pc = "member_commit"
    /\ db' = sess
    /\ pc' = "returned"
    /\ result' = Result("member", TRUE, "none", FALSE, loc.tx_hash)
    /\ UNCHANGED <<sess, db0, loc>>

\* --------------------------------------------- grid purchases: the system
GridUsers ==
    [i \in 1..3 |-> NewUser(IF i = 1 THEN None ELSE i - 1, i = 1, i < 3, 0)]

\* The store after member 2 has paid for n seats of tier 1, all of them in
\* the grid of its sponsor, member 1.
\* It is what n runs of process_grid_payment(2, 1, <<2, k, 0>>) leave, for
\* n < GRID_TOTAL: the rows of the payments, the seats in the order of
\* _next_slot, the counters and the level pool commissions of the owner.
SeatsTaken(n) ==
    LET amount == MulPct(GridPrice(1), LEVEL_PCT, 10000 * GRID_LEVELS)
        c == [to_user_id |-> 1, grid_id |-> 1, amount_usdt |-> amount,
              commission_type |-> "level_pool"]
        s == EmptyStore(GridUsers)
    IN [s EXCEPT
          !.grids = << [NewGrid(1, 1, 1) EXCEPT !.positions_filled = n,
                                                !.revenue_total = n * GridPrice(1)] >>,
          !.payments = {GridPaymentRow(2, 1, <<2, k, 0>>) : k \in 1..n},
          !.positions = {[grid_id |-> 1, member_id |-> 2,
                          grid_level |-> ((k - 1) \div GRID_WIDTH) + 1,
                          position_num |-> ((k - 1) % GRID_WIDTH) + 1,
                          is_overspill |-> FALSE] : k \in 1..n},
          !.commissions = IF n = 0 THEN EmptyBag ELSE [e \in {c} |-> n],
          !.users[1].balance = n * amount,
          !.users[1].total_earned = n * amount,
          !.users[1].total_team = n]

InitGrid ==
    /\ db = SeatsTaken(PrefilledSeats)
    /\ sess = db
    /\ db0 = db
    /\ pc = "idle"
    /\ loc = Idle
    /\ result = Result("none", FALSE, "none", FALSE, None)

GridTiers == {1, 9}

NextGrid ==
    \/ \E u \in 0..3 : \E tx \in TxInputs(sess, u) :
          \E t \in GridTiers, v \in BOOLEAN : process_grid_payment(u, t, tx, v)
    \/ place_member_in_grid
    \/ fill_seat
    \/ _find_overspill_placement
    \/ grid_commit
    \/ \E u \in 0..3 : \E tx \in TxInputs(sess, u) :
          \E v \in BOOLEAN : process_membership_payment(u, tx, v)
    \/ _cascade_auto_activation
    \/ member_commit
    \/ crash
    \/ end_request

SpecGrid == InitGrid /\ [][NextGrid]_vars

\* ------------------------------------------- the cascade at its bound
\* Sponsor graphs of members who have not paid yet: a chain longer than
\* max_depth, and graphs the registration code does not produce but the
\* cascade is written to survive.
NCascade == MaxDepthCascade + 2 + ChainExtra

FreeUser(sp) == NewUser(sp, FALSE, FALSE, 0)

CascadeGraphs ==
    { \* member i was referred by member i + 1
      [i \in 1..NCascade |-> FreeUser(IF i < NCascade THEN i + 1 ELSE None)],
      \* 1, 2 and 3 sponsor each other in a ring
      [i \in 1..3 |-> FreeUser(IF i < 3 THEN i + 1 ELSE 1)],
      \* 1 under 2; 2 and 3 sponsor each other
      [i \in 1..3 |-> FreeUser(IF i = 1 THEN 2 ELSE IF i = 2 THEN 3 ELSE 2)],
      \* 1 under 2, which is its own sponsor; 3 under 4, which has paid
      [i \in 1..4 |-> NewUser(IF i = 1 THEN 2 ELSE IF i = 2 THEN 2
                                ELSE IF i = 3 THEN 4 ELSE None,
                              FALSE, i = 4, 0)] }

InitCascade == \E g \in CascadeGraphs : InitWith(g)

NextCascade ==
    \/ \E u \in 0..MaxBuyers : \E tx \in TxInputs(sess, u) :
          \E v \in BOOLEAN : process_membership_payment(u, tx, v)
    \/ _cascade_auto_activation
    \/ member_commit
    \/ end_request

SpecCascade == InitCascade /\ [][NextCascade]_vars

\* ------------------------------------- wallet: withdrawals, renewals, P2P
MIN_WITHDRAWAL == 5 * Micro
MIN_P2P_AMOUNT == 1 * Micro
MAX_P2P_AMOUNT == 500 * Micro

\* timedelta(days=...) of the renewal sweep; dates are whole days.
RENEWAL_DAYS == 30
WARNING_DAYS == 3
GRACE_DAYS == 5

\* A row of users with the columns the wallet handlers read; the username
\* of member u is kept as <<"name", u>>.
WalletUser(u, sp, adm, act, bal, wallet) ==
    NewUser(sp, adm, act, bal)
        @@ [username |-> <<"name", u>>, wallet_address |-> wallet,
            total_withdrawn |-> 0, low_balance_warned |-> FALSE]

\* The MembershipRenewal row initialise_renewal_record adds at time `now`.
initialise_renewal_record(user_id, now) ==
    [user_id |-> user_id, next_renewal_date |-> now + RENEWAL_DAYS,
     last_renewed_at |-> now, in_grace_period |-> FALSE,
     grace_period_start |-> None, total_renewals |-> 1]

WalletStore(users, renewals) ==
    EmptyStore(users)
        @@ [withdrawals |-> EmptyBag, transfers |-> EmptyBag, renewals |-> renewals]

\* A handler that writes in one transaction returns after its db.commit().
WalletDone(op, s, success, error, locals) ==
    /\ sess' = s
    /\ db' = s
    /\ db0' = db
    /\ pc' = "returned"
    /\ loc' = [op |-> op] @@ locals
    /\ result' = Result(op, success, error, FALSE, None)

request_withdrawal_unchecked(user_id, amount) ==
    /\ pc = "idle"
    /\ IF user_id \notin Ids(sess) THEN PayFail("withdraw", "User not found", None)
       ELSE IF amount < MIN_WITHDRAWAL
       THEN PayFail("withdraw", "Minimum withdrawal is $5 USDT", None)
       ELSE IF sess.users[user_id].wallet_address = None
       THEN PayFail("withdraw", "No withdrawal wallet set", None)
       ELSE LET withdrawal == [user_id |-> user_id, amount_usdt |-> amount,
                               wallet_address |-> sess.users[user_id].wallet_address,
                               status |-> "pending"]
            IN WalletDone("withdraw",
                          [sess EXCEPT !.users[user_id].balance = @ - amount,
                                       !.users[user_id].total_withdrawn = @ + amount,
                                       !.withdrawals = BagAdd(@, withdrawal)],
                          TRUE, "none", [user_id |-> user_id, amount |-> amount])

request_withdrawal(user_id, amount) ==
    /\ pc = "idle"
    /\ IF user_id \notin Ids(sess) THEN PayFail("withdraw", "User not found", None)
       ELSE IF amount < MIN_WITHDRAWAL
       THEN PayFail("withdraw", "Minimum withdrawal is $5 USDT", None)
       ELSE IF sess.users[user_id].balance < amount
       THEN PayFail("withdraw", "Insufficient balance", None)
       ELSE IF sess.users[user_id].wallet_address = None
       THEN PayFail("withdraw", "No withdrawal wallet set", None)
       ELSE LET withdrawal == [user_id |-> user_id, amount_usdt |-> amount,
                               wallet_address |-> sess.users[user_id].wallet_address,
                               status |-> "pending"]
            IN WalletDone("withdraw",
                          [sess EXCEPT !.users[user_id].balance = @ - amount,
                                       !.users[user_id].total_withdrawn = @ + amount,
                                       !.withdrawals = BagAdd(@, withdrawal)],
                          TRUE, "none", [user_id |-> user_id, amount |-> amount])

renew_one_nocredit(s, i, now) ==
    LET renewal == s.renewals[i]
        uid == renewal.user_id
    IN IF uid \notin Ids(s) \/ ~ s.users[uid].is_active THEN s
       ELSE LET user == s.users[uid]
                warn == /\ now >= renewal.next_renewal_date - WARNING_DAYS
                        /\ ~ renewal.in_grace_period
                        /\ user.balance < MEMBERSHIP_FEE
                        /\ ~ user.low_balance_warned
                s1 == IF warn THEN [s EXCEPT !.users[uid].low_balance_warned = TRUE]
                      ELSE s
            IN IF now >= renewal.next_renewal_date /\ ~ renewal.in_grace_period
               THEN IF user.balance >= MEMBERSHIP_FEE
                    THEN LET sp == user.sponsor_id
                             sponsor == IF sp # None /\ sp \in Ids(s) THEN sp ELSE None
                             s2 == [s1 EXCEPT
                                      !.users[uid].balance = @ - MEMBERSHIP_FEE,
                                      !.users[uid].low_balance_warned = FALSE]
                             s3 == s2
                             c == [to_user_id |-> sponsor, grid_id |-> None,
                                   amount_usdt |-> MEMBERSHIP_FEE,
                                   commission_type |-> "membership_renewal",
                                   from_user_id |-> uid]
                         IN [s3 EXCEPT
                               !.commissions = BagAdd(@, c),
                               !.renewals[i].last_renewed_at = now,
                               !.renewals[i].next_renewal_date = now + RENEWAL_DAYS,
                               !.renewals[i].total_renewals = @ + 1]
                    ELSE [s1 EXCEPT !.renewals[i].in_grace_period = TRUE,
                                    !.renewals[i].grace_period_start = now]
               ELSE IF renewal.in_grace_period /\ renewal.grace_period_start # None
                       /\ now >= renewal.grace_period_start + GRACE_DAYS
               THEN [s1 EXCEPT !.users[uid].is_active = FALSE,
                               !.renewals[i].in_grace_period = FALSE]
               ELSE s1

renew_one_nowindow(s, i, now) ==
    LET renewal == s.renewals[i]
        uid == renewal.user_id
    IN IF uid \notin Ids(s) \/ ~ s.users[uid].is_active THEN s
       ELSE LET user == s.users[uid]
                warn == /\ now >= renewal.next_renewal_date - WARNING_DAYS
                        /\ ~ renewal.in_grace_period
                        /\ user.balance < MEMBERSHIP_FEE
                        /\ ~ user.low_balance_warned
                s1 == IF warn THEN [s EXCEPT !.users[uid].low_balance_warned = TRUE]
                      ELSE s
            IN IF now >= renewal.next_renewal_date /\ ~ renewal.in_grace_period
               THEN IF user.balance >= MEMBERSHIP_FEE
                    THEN LET sp == user.sponsor_id
                             sponsor == IF sp # None /\ sp \in Ids(s) THEN sp ELSE None
                             s2 == [s1 EXCEPT
                                      !.users[uid].balance = @ - MEMBERSHIP_FEE,
                                      !.users[uid].low_balance_warned = FALSE]
                             s3 == IF sponsor # None
                                   THEN Credit(s2, sponsor, MEMBERSHIP_FEE) ELSE s2
                             c == [to_user_id |-> sponsor, grid_id |-> None,
                                   amount_usdt |-> MEMBERSHIP_FEE,
                                   commission_type |-> "membership_renewal",
                                   from_user_id |-> uid]
                         IN [s3 EXCEPT
                               !.commissions = BagAdd(@, c),
                               !.renewals[i].last_renewed_at = now,
                               !.renewals[i].next_renewal_date = now + RENEWAL_DAYS,
                               !.renewals[i].total_renewals = @ + 1]
                    ELSE [s1 EXCEPT !.renewals[i].in_grace_period = TRUE,
                                    !.renewals[i].grace_period_start = now]
               ELSE IF renewal.in_grace_period /\ renewal.grace_period_start # None
                       /\ now >= renewal.grace_period_start
               THEN [s1 EXCEPT !.users[uid].is_active = FALSE,
                               !.renewals[i].in_grace_period = FALSE]
               ELSE s1

\* The body of the loop of process_auto_renewals for one renewal row.
renew_one(s, i, now) ==
    LET renewal == s.renewals[i]
        uid == renewal.user_id
    IN IF uid \notin Ids(s) \/ ~ s.users[uid].is_active THEN s
       ELSE LET user == s.users[uid]
                warn == /\ now >= renewal.next_renewal_date - WARNING_DAYS
                        /\ ~ renewal.in_grace_period
                        /\ user.balance < MEMBERSHIP_FEE
                        /\ ~ user.low_balance_warned
                s1 == IF warn THEN [s EXCEPT !.users[uid].low_balance_warned = TRUE]
                      ELSE s
            IN IF now >= renewal.next_renewal_date /\ ~ renewal.in_grace_period
               THEN IF user.balance >= MEMBERSHIP_FEE
                    THEN LET sp == user.sponsor_id
                             sponsor == IF sp # None /\ sp \in Ids(s) THEN sp ELSE None
                             s2 == [s1 EXCEPT
                                      !.users[uid].balance = @ - MEMBERSHIP_FEE,
                                      !.users[uid].low_balance_warned = FALSE]
                             s3 == IF sponsor # None
                                   THEN Credit(s2, sponsor, MEMBERSHIP_FEE) ELSE s2
                             c == [to_user_id |-> sponsor, grid_id |-> None,
                                   amount_usdt |-> MEMBERSHIP_FEE,
                                   commission_type |-> "membership_renewal",
                                   from_user_id |-> uid]
                         IN [s3 EXCEPT
                               !.commissions = BagAdd(@, c),
                               !.renewals[i].last_renewed_at = now,
                               !.renewals[i].next_renewal_date = now + RENEWAL_DAYS,
                               !.renewals[i].total_renewals = @ + 1]
                    ELSE [s1 EXCEPT !.renewals[i].in_grace_period = TRUE,
                                    !.renewals[i].grace_period_start = now]
               ELSE IF renewal.in_grace_period /\ renewal.grace_period_start # None
                       /\ now >= renewal.grace_period_start + GRACE_DAYS
               THEN [s1 EXCEPT !.users[uid].is_active = FALSE,
                               !.renewals[i].in_grace_period = FALSE]
               ELSE s1

\* The loop of process_auto_renewals from row i on, in the order of the rows.
RECURSIVE renew_from(_, _, _)
renew_from(s, i, now) ==
    IF i > Len(s.renewals) THEN s ELSE renew_from(renew_one(s, i, now), i + 1, now)

\* The latest time a row of renewals was written at.
LastStamp(s) ==
    LET T == {s.renewals[i].last_renewed_at : i \in DOMAIN s.renewals}
               \cup {s.renewals[i].grace_period_start : i \in DOMAIN s.renewals}
    IN CHOOSE t \in T \cup {0} : \A x \in T : x <= t

\* now is datetime.utcnow(), which is not before a time already written.
process_auto_renewals(now) ==
    /\ pc = "idle"
    /\ now >= LastStamp(sess)
    /\ WalletDone("renewals", renew_from(sess, 1, now), TRUE, "none",
                  [now |-> now])

\* to_member_id is <<"id", n>> for 'SAP-0000n' or the digits of n, and
\* <<"name", n>> for the username of member n.  A string of digits that is
\* no member's id is tried as a username as well.
ResolveRecipient(s, to_member_id) ==
    IF to_member_id[1] = "id" /\ to_member_id[2] \in Ids(s) THEN to_member_id[2]
    ELSE LET M == {u \in Ids(s) : s.users[u].username = to_member_id}
         IN IF M = {} THEN None ELSE CHOOSE u \in M : TRUE

P2PFail(error) == PayFail("p2p", error, None)

p2p_execute_nodebit(s, from_user_id, recipient, amount) ==
    LET transfer == [from_user_id |-> from_user_id, to_user_id |-> recipient,
                     amount_usdt |-> amount, status |-> "completed"]
    IN [Credit(s, recipient, amount) EXCEPT !.transfers = BagAdd(@, transfer)]

\* The writes of process_p2p_transfer: both balances, the recipient's
\* total_earned and the P2PTransfer row.
p2p_execute(s, from_user_id, recipient, amount) ==
    LET transfer == [from_user_id |-> from_user_id, to_user_id |-> recipient,
                     amount_usdt |-> amount, status |-> "completed"]
        s1 == [s EXCEPT !.users[from_user_id].balance = @ - amount]
    IN [Credit(s1, recipient, amount) EXCEPT !.transfers = BagAdd(@, transfer)]

process_p2p_transfer_noceiling(from_user_id, to_member_id, amount) ==
    /\ pc = "idle"
    /\ IF amount < MIN_P2P_AMOUNT THEN P2PFail("Minimum transfer")
       ELSE IF from_user_id \notin Ids(sess) THEN P2PFail("Sender not found")
       ELSE IF ~ sess.users[from_user_id].is_active
       THEN P2PFail("Active membership required to transfer funds")
       ELSE IF sess.users[from_user_id].balance < amount
       THEN P2PFail("Insufficient balance")
       ELSE LET recipient == ResolveRecipient(sess, to_member_id)
            IN IF recipient = None THEN P2PFail("Member not found")
               ELSE IF recipient = from_user_id
               THEN P2PFail("You cannot transfer funds to yourself")
               ELSE IF ~ sess.users[recipient].is_active
               THEN P2PFail("Recipient does not have an active membership")
               ELSE WalletDone("p2p",
                               p2p_execute(sess, from_user_id, recipient, amount),
                               TRUE, "none",
                               [from_user_id |-> from_user_id,
                                recipient |-> recipient, amount |-> amount])

process_p2p_transfer(from_user_id, to_member_id, amount) ==
    /\ pc = "idle"
    /\ IF amount < MIN_P2P_AMOUNT THEN P2PFail("Minimum transfer")
       ELSE IF amount > MAX_P2P_AMOUNT THEN P2PFail("Maximum single transfer")
       ELSE IF from_user_id \notin Ids(sess) THEN P2PFail("Sender not found")
       ELSE IF ~ sess.users[from_user_id].is_active
       THEN P2PFail("Active membership required to transfer funds")
       ELSE IF sess.users[from_user_id].balance < amount
       THEN P2PFail("Insufficient balance")
       ELSE LET recipient == ResolveRecipient(sess, to_member_id)
            IN IF recipient = None THEN P2PFail("Member not found")
               ELSE IF recipient = from_user_id
               THEN P2PFail("You cannot transfer funds to yourself")
               ELSE IF ~ sess.users[recipient].is_active
               THEN P2PFail("Recipient does not have an active membership")
               ELSE WalletDone("p2p",
                               p2p_execute(sess, from_user_id, recipient, amount),
                               TRUE, "none",
                               [from_user_id |-> from_user_id,
                                recipient |-> recipient, amount |-> amount])

\* ------------------------------------------------- the wallet: the system
\* Member 1 is the admin; 2 and 3 were referred by 1 and 4 by 3; 3 and 4
\* have not paid their membership.  1 and 2 were activated at day 0.
WalletUsers(balance2) ==
    [u \in 1..4 |->
        WalletUser(u, CASE u = 1 -> None [] u = 4 -> 3 [] OTHER -> 1,
                   u = 1, u < 3,
                   CASE u = 1 -> MAX_P2P_AMOUNT [] u = 2 -> balance2
                     [] u = 3 -> CoursePrice[1] [] OTHER -> 0,
                   IF u < 3 THEN u ELSE None)]

InitWallet ==
    \E balance2 \in {MIN_WITHDRAWAL, CoursePrice[1]} :
        /\ db = WalletStore(WalletUsers(balance2),
                            << initialise_renewal_record(1, 0),
                               initialise_renewal_record(2, 0) >>)
        /\ sess = db
        /\ db0 = db
        /\ pc = "idle"
        /\ loc = Idle
        /\ result = Result("none", FALSE, "none", FALSE, None)

\* Rows written by the purchases, withdrawals and transfers so far.
WalletRows(s) ==
    BagCardinality(s.purchases) + BagCardinality(s.withdrawals)
        + BagCardinality(s.transfers)
        + Cardinality(PaymentsOf(s, "grid")) + Cardinality(PaymentsOf(s, "membership"))

\* Amounts around the limits of the handlers.
P2PAmounts == {MIN_P2P_AMOUNT - 1, MIN_P2P_AMOUNT, MAX_P2P_AMOUNT, MAX_P2P_AMOUNT + 1}

WithdrawAmounts == {MIN_WITHDRAWAL - 1, MIN_WITHDRAWAL, MAX_P2P_AMOUNT}

\* Callers: the members and 0, which is nobody's id.
WalletCallers == 0..4

Recipients == {<<"id", n>> : n \in WalletCallers} \cup {<<"name", 0>>, <<"name", 2>>}

SweepDays ==
    {RENEWAL_DAYS - WARNING_DAYS, RENEWAL_DAYS, RENEWAL_DAYS + GRACE_DAYS - 1,
     RENEWAL_DAYS + GRACE_DAYS, MaxDay}

NextWallet ==
    \/ /\ WalletRows(sess) < MaxWalletOps
       /\ \E b \in WalletCallers, c \in CourseIds :
              process_course_purchase(b, c, "wallet", None)
    \/ _find_passup_recipient
    \/ find_qualified_upline
    \/ course_commit
    \/ /\ WalletRows(sess) < MaxWalletOps
       /\ \E u \in WalletCallers : \E tx \in TxInputs(sess, u) :
              process_grid_payment(u, 1, tx, TRUE)
    \/ place_member_in_grid
    \/ fill_seat
    \/ _find_overspill_placement
    \/ grid_commit
    \/ /\ WalletRows(sess) < MaxWalletOps
       /\ \E u \in WalletCallers : \E tx \in TxInputs(sess, u) :
              process_membership_payment(u, tx, TRUE)
    \/ _cascade_auto_activation
    \/ member_commit
    \/ /\ WalletRows(sess) < MaxWalletOps
       /\ \E u \in WalletCallers, a \in WithdrawAmounts : request_withdrawal(u, a)
    \/ /\ WalletRows(sess) < MaxWalletOps
       /\ \E u \in WalletCallers, to \in Recipients, a \in P2PAmounts :
              process_p2p_transfer(u, to, a)
    \/ \E now \in SweepDays : process_auto_renewals(now)
    \/ end_request

SpecWallet == InitWallet /\ [][NextWallet]_vars

\* ------------------------------------------------ transfers on their own
\* Members 1, 2 and 3 are active and hold balance1, the least amount that
\* can be sent, and nothing; member 4 has not paid its membership.
TransferUsers(balance1) ==
    [u \in 1..4 |->
        WalletUser(u, IF u = 1 THEN None ELSE u - 1, u = 1, u < 4,
                   CASE u = 1 -> balance1 [] u = 2 -> MIN_P2P_AMOUNT
                     [] u = 3 -> 0 [] OTHER -> MAX_P2P_AMOUNT,
                   None)]

InitTransfer ==
    \E balance1 \in {MAX_P2P_AMOUNT, 2 * MAX_P2P_AMOUNT} :
        /\ db = WalletStore(TransferUsers(balance1), << >>)
        /\ sess = db
        /\ db0 = db
        /\ pc = "idle"
        /\ loc = Idle
        /\ result = Result("none", FALSE, "none", FALSE, None)

NextTransfer ==
    \/ /\ BagCardinality(sess.transfers) < MaxTransfers
       /\ \E u \in WalletCallers, to \in Recipients, a \in P2PAmounts :
              process_p2p_transfer(u, to, a)
    \/ end_request

SpecTransfer == InitTransfer /\ [][NextTransfer]_vars

\* ------------------------------------------ a second admin above a sponsor
\* Members 2 and 3 were referred by 4, and 4 by 5; 1 and 5 were made admins
\* by /admin/activate-owner, which puts them at the root.
SkipUsers ==
    [u \in 1..5 |->
        NewUser(CASE u \in {2, 3} -> 4 [] u = 4 -> 5 [] OTHER -> None,
                u \in {1, 5}, TRUE, 100 * Micro)]

\* Member 1 is the admin; 2 was referred by 1, 4 by 2 and 3 by 4.
OwnerUsers ==
    [u \in 1..4 |->
        NewUser(CASE u = 2 -> 1 [] u = 4 -> 2 [] u = 3 -> 4 [] OTHER -> None,
                u = 1, TRUE, 100 * Micro)]

InitSkip == \E g \in {SkipUsers, OwnerUsers} : InitWith(g)

SpecSkip == InitSkip /\ [][NextCourse]_vars

\* ------------------------------------------------------------- properties
CourseDone == loc.op = "course" /\ pc = "idle" /\ result.success

\* C1: every successful process_course_purchase appends exactly one
\* commission ledger entry for that purchase, and its amount is the price,
\* whichever branch of _distribute_commission was taken.
C1_OneEntryOfPrice ==
    (loc.op = "course" /\ (pc = "course_commit" \/ CourseDone)) =>
        LET new == BagNew(sess.course_commissions, db0.course_commissions)
        IN /\ BagCardinality(sess.course_commissions)
                  = BagCardinality(db0.course_commissions) + 1
           /\ BagCardinality(new) = 1
           /\ \A e \in BagToSet(new) :
                  /\ e.amount = CoursePrice[loc.tier]
                  /\ e.buyer_id = loc.buyer_id
                  /\ e.course_tier = loc.tier

\* A purchase whose first-sale walk found an earner has committed, after an
\* earlier purchase was credited.
C1_Witness ==
    /\ CourseDone
    /\ loc.walked /\ loc.earner # None
    /\ BagCardinality(db.course_commissions) >= 2

RefProcessed(s, tx_ref) == \E p \in BagToSet(s.purchases) : p.tx_ref = tx_ref

\* C4: a process_course_purchase call carrying an external reference that
\* an earlier purchase has committed is rejected and changes nothing.
C4_DuplicateRefRejected ==
    [][\A b \in Buyers, c \in CourseIds, m \in PayInputs :
          (process_course_purchase(b, c, m[1], m[2])
              /\ m[2] # None /\ RefProcessed(db, m[2]))
          => (~ result'.success /\ pc' = "idle" /\ sess' = sess /\ db' = db)]_vars

TrackerKeys(s) == DOMAIN s.trackers

TrackerInv(s) ==
    \A k \in TrackerKeys(s) :
        s.trackers[k].first_passed_up <=> s.trackers[k].sales_count >= 1

TrackerStep(s, t) ==
    \A k \in TrackerKeys(s) :
        /\ s.trackers[k].first_passed_up => t.trackers[k].first_passed_up
        /\ t.trackers[k].sales_count >= s.trackers[k].sales_count
        /\ (~ s.trackers[k].first_passed_up /\ t.trackers[k].first_passed_up)
              <=> (s.trackers[k].sales_count = 0 /\ t.trackers[k].sales_count = 1)

\* C5: for every (member, tier) tracker firstPassedUp never returns to
\* false, salesCount never decreases, firstPassedUp becomes true in exactly
\* the step that takes salesCount from 0 to 1, and so firstPassedUp holds
\* exactly when salesCount >= 1.
C5_PassUpMonotone ==
    /\ [](TrackerInv(sess) /\ TrackerInv(db))
    /\ [][TrackerStep(sess, sess') /\ TrackerStep(db, db')]_vars

\* A committed first-sale walk consumed the untouched tracker of an
\* ancestor that owns the tier.
C5_Witness ==
    /\ CourseDone /\ loc.walked
    /\ \E u \in Ids(db) :
          /\ u # loc.sponsor
          /\ ~ Tracker(db0, u, loc.tier).first_passed_up
          /\ Tracker(db, u, loc.tier).first_passed_up
          /\ Tracker(db, u, loc.tier).sales_count = 1

\* C8: a walk of find_qualified_upline or _find_passup_recipient over a
\* chain longer than max_depth, or over a cycle, in which no member
\* satisfied the qualification predicate when the walk started, ends within
\* max_depth hops and returns nobody.
C8_BoundedWalkReturnsNone ==
    /\ (loc.op = "course" => loc.depth <= MaxDepthWalk)
    /\ (loc.op = "course" /\ loc.walked /\ loc.none0) => loc.earner = None

\* The commission entries the running grid purchase has made durable.
GridEventCommissions == BagNew(db.commissions, db0.commissions)

\* C2: a seat fill of a grid purchase of price P produces commission
\* entries whose amounts add up to P exactly, in millionths of a USDT.
C2_SeatFillSumsToPrice ==
    (loc.op = "grid" /\ loc.place.success)
        => CommissionTotal(GridEventCommissions) = GridPrice(loc.package_tier)

GridProcessed(s, tx_hash) ==
    \E p \in s.payments : p.tx_hash = tx_hash /\ p.payment_type = "grid"

DuplicateRejected ==
    /\ ~ result'.success
    /\ result'.error = "Transaction already processed"
    /\ pc' = "returned"
    /\ sess' = sess
    /\ db' = db

\* C3: a process_grid_payment or process_membership_payment call carrying
\* a transaction hash that process_grid_payment has processed returns
\* success False (already processed) and adds no payment, seat or
\* commission and changes no grid counter and no balance.
C3_DuplicateHashRejected ==
    [][\A u \in 0..3 : \A tx \in TxInputs(sess, u) : \A v \in BOOLEAN :
          (/\ GridProcessed(db, tx)
           /\ \/ \E t \in GridTiers : process_grid_payment(u, t, tx, v)
              \/ process_membership_payment(u, tx, v))
          => DuplicateRejected]_vars

\* A membership payment was turned away for carrying the hash under which
\* a grid purchase made in this run holds its seat.
C3_Witness ==
    /\ pc = "returned" /\ result.op = "member"
    /\ result.error = "Transaction already processed"
    /\ GridProcessed(db, result.tx)
    /\ result.tx[2] > PrefilledSeats
    /\ Cardinality(db.positions) > PrefilledSeats

ActivatedIds == {loc.activated_users[i][1] : i \in DOMAIN loc.activated_users}

CascadeInv ==
    loc.op = "member" =>
        /\ loc.chain_depth <= MaxDepthCascade + 1
        /\ Len(loc.activated_users) <= MaxDepthCascade
        /\ Cardinality(ActivatedIds) = Len(loc.activated_users)
        /\ \A u \in ActivatedIds :
              ~ db0.users[u].is_active /\ sess.users[u].is_active

CascadeStep ==
    (pc = "cascade" /\ pc' = "cascade") =>
        /\ loc'.chain_depth = loc.chain_depth + 1
        /\ Len(loc'.activated_users) = Len(loc.activated_users) + 1

\* C6: on any sponsor graph, cyclic ones included, every invocation of
\* _cascade_auto_activation that recurses activates one member and goes one
\* level deeper, the depth never passes max_depth + 1, so the cascade ends
\* after at most max_depth activations; and no member is activated twice
\* within one cascade.
C6_CascadeBounded == [] CascadeInv /\ [][CascadeStep]_vars

\* A cascade on the long chain stopped by the depth cap, after activating
\* max_depth members.
C6_Witness ==
    /\ pc = "returned" /\ loc.op = "member"
    /\ Len(loc.activated_users) = MaxDepthCascade
    /\ loc.chain_depth = MaxDepthCascade + 1

GridInv(s) ==
    /\ \A g \in GridIds(s) :
          /\ s.grids[g].positions_filled <= GRID_TOTAL
          /\ s.grids[g].is_complete <=> s.grids[g].positions_filled = GRID_TOTAL
    /\ \A g, h \in GridIds(s) :
          (/\ s.grids[g].owner_id = s.grids[h].owner_id
           /\ s.grids[g].package_tier = s.grids[h].package_tier
           /\ ~ s.grids[g].is_complete /\ ~ s.grids[h].is_complete) => g = h

GridStep(s, t) ==
    \A g \in GridIds(s) :
        (g \in GridIds(t) /\ s.grids[g].positions_filled < GRID_TOTAL
            /\ t.grids[g].positions_filled >= GRID_TOTAL)
        => /\ t.grids[g].is_complete
           /\ Len(t.grids) = Len(s.grids) + 1
           /\ t.grids[Len(t.grids)] =
                 NewGrid(s.grids[g].owner_id, s.grids[g].package_tier,
                         s.grids[g].cycle_number + 1)

C9_FailureLeavesNoTrace ==
    (pc = "returned" /\ result.op = "grid" /\ ~ result.raised /\ ~ result.success)
        => /\ db = db0
           /\ result.error # "Transaction already processed"
                 => ~ AlreadyProcessed(db, result.tx)

GridEventPersisted ==
    /\ AlreadyProcessed(db, loc.tx_hash)
    /\ Cardinality(db.positions) = Cardinality(db0.positions) + 1
    /\ BagCardinality(GridEventCommissions) >= 1

\* C10: when a grid purchase event is over, by a return, an exception or a
\* crash, either all of its writes are durable (payment row, seat,
\* counters, commissions) or none is.
C10_GridEventAtomic ==
    (pc = "returned" /\ loc.op = "grid") => (db = db0 \/ GridEventPersisted)

\* C11: a process_course_purchase paid by a method other than the wallet is
\* not applied while the payment oracle has not verified its reference;
\* the handler never asks the oracle, so every such call has to return a
\* failure and leave the state as it was.
C11_UnverifiedNotApplied ==
    [][\A b \in Buyers, c \in CourseIds \cup {0}, m \in PayInputs :
          (process_course_purchase(b, c, m[1], m[2]) /\ m[1] # "wallet")
          => (~ result'.success /\ pc' = "idle" /\ sess' = sess /\ db' = db)]_vars

PurchasesOf(s, u, t) ==
    {p \in BagToSet(s.purchases) : p.user_id = u /\ p.course_tier = t}

PurchaseCount(s, u, t) ==
    SumOver(PurchasesOf(s, u, t),
            [p \in PurchasesOf(s, u, t) |-> CopiesIn(p, s.purchases)])

OnePurchaseInv ==
    \A u \in Ids(sess), t \in CourseIds :
        PurchaseCount(sess, u, t) <= 1 /\ PurchaseCount(db, u, t) <= 1

\* A call for a tier the buyer holds a purchase of fails and writes nothing.
RepurchaseStep ==
    \A b \in Buyers, c \in CourseIds, m \in PayInputs :
        (process_course_purchase(b, c, m[1], m[2])
            /\ b \in Ids(sess) /\ PurchasesOf(sess, b, c) # {})
        => (/\ ~ result'.success
            /\ result'.error = "Already purchased"
            /\ pc' = "idle" /\ sess' = sess /\ db' = db)

\* C13: a member holds at most one purchase record per tier; a purchase of
\* a tier the member already holds is rejected and changes nothing.
C13_OnePurchasePerTier == [] OnePurchaseInv /\ [][RepurchaseStep]_vars

\* A member who holds a tier asked for it again and was turned down.
C13_Witness ==
    /\ result.op = "course" /\ result.error = "Already purchased"
    /\ \E u \in Ids(db), t \in CourseIds : PurchaseCount(db, u, t) = 1

Balances(s) == [u \in Ids(s) |-> s.users[u].balance]

\* The conditions under which a transfer is to be turned down.
P2PRejected(s, from_user_id, to_member_id, amount) ==
    \/ amount < MIN_P2P_AMOUNT
    \/ amount > MAX_P2P_AMOUNT
    \/ from_user_id \notin Ids(s)
    \/ ~ s.users[from_user_id].is_active
    \/ s.users[from_user_id].balance < amount
    \/ ResolveRecipient(s, to_member_id) = None
    \/ ResolveRecipient(s, to_member_id) = from_user_id
    \/ ~ s.users[ResolveRecipient(s, to_member_id)].is_active

P2PRejectStep ==
    \A u \in WalletCallers, to \in Recipients, a \in P2PAmounts :
        process_p2p_transfer(u, to, a)
        => /\ P2PRejected(sess, u, to, a)
              => /\ ~ result'.success
                 /\ Balances(db') = Balances(db) /\ Balances(sess') = Balances(sess)
                 /\ db'.transfers = db.transfers /\ sess'.transfers = sess.transfers
           /\ a \in {MIN_P2P_AMOUNT, MAX_P2P_AMOUNT}
              => result'.error \notin {"Minimum transfer", "Maximum single transfer"}
           /\ ~ P2PRejected(sess, u, to, a) => result'.success

\* C14: process_p2p_transfer returns a failure and leaves every balance and
\* the transfers as they were when the amount is below the minimum or above
\* the maximum, the sender is missing or inactive or has less than the
\* amount, or the recipient is not found, is the sender, or is inactive; an
\* amount equal to the minimum or to the maximum is not turned down for its
\* size.
C14_P2PRejects == [][P2PRejectStep]_vars

\* A transfer above the maximum was turned down although an active member
\* could have paid it.
C14_Witness ==
    /\ pc = "returned" /\ result.op = "p2p"
    /\ result.error = "Maximum single transfer"
    /\ \E u \in Ids(db) : db.users[u].is_active /\ db.users[u].balance > MAX_P2P_AMOUNT

TotalBalance(s) == SumOver(Ids(s), Balances(s))

P2PEffectStep ==
    \A u \in WalletCallers, to \in Recipients, a \in P2PAmounts :
        (process_p2p_transfer(u, to, a) /\ result'.success)
        => LET r == ResolveRecipient(sess, to)
               row == [from_user_id |-> u, to_user_id |-> r, amount_usdt |-> a,
                       status |-> "completed"]
           IN /\ r \in Ids(db) /\ r # u
              /\ db'.users[u].balance = db.users[u].balance - a
              /\ db'.users[r].balance = db.users[r].balance + a
              /\ \A v \in Ids(db) \ {u, r} :
                    db'.users[v].balance = db.users[v].balance
              /\ \A v \in Ids(db) : db'.users[v].is_active = db.users[v].is_active
              /\ Ids(db') = Ids(db)
              /\ db'.transfers = BagAdd(db.transfers, row)
              /\ TotalBalance(db') = TotalBalance(db)

C20_OwnsExactTier ==
    \A u \in Ids(sess), t \in CourseIds :
        user_owns_tier(sess, u, t) <=> PurchasesOf(sess, u, t) # {}

\* The nearest member of Q on the sponsor chain from cur upward, cur
\* counting as one hop, within MaxDepthWalk hops; None when there is none.
RECURSIVE NearestIn(_, _, _, _)
NearestIn(s, cur, hops, Q) ==
    IF cur = None \/ cur \notin Ids(s) \/ hops >= MaxDepthWalk
    THEN [earner |-> None, depth |-> hops]
    ELSE IF cur \in Q THEN [earner |-> cur, depth |-> hops + 1]
    ELSE NearestIn(s, s.users[cur].sponsor_id, hops + 1, Q)

\* The commission entries of the running, or the last, course purchase.
CourseEntries == BagNew(sess.course_commissions, db0.course_commissions)

\* The course purchase of loc has been distributed.
Distributed == loc.op = "course" /\ (pc = "course_commit" \/ CourseDone)

\* The purchase of loc is a sale of a sponsor that exists.
SaleOfSponsor == Distributed /\ loc.sponsor # None /\ loc.sponsor \in Ids(db0)

DirectSaleTo(u) ==
    /\ BagCardinality(CourseEntries) = 1
    /\ \A c \in BagToSet(CourseEntries) :
          /\ c.earner_id = u /\ c.commission_type = "direct_sale"
          /\ c.pass_up_depth = 0 /\ c.amount = CoursePrice[loc.tier]
    /\ sess.users[u].balance = db0.users[u].balance + CoursePrice[loc.tier]

C18_UnqualifiedSponsorSkipped ==
    (/\ SaleOfSponsor
     /\ Tracker(db0, loc.sponsor, loc.tier).first_passed_up
     /\ ~ user_owns_tier(db0, loc.sponsor, loc.tier))
    => LET Q == {u \in Ids(db0) :
                    db0.users[u].is_admin \/ user_owns_tier(db0, u, loc.tier)}
           e == NearestIn(db0, db0.users[loc.sponsor].sponsor_id, 0, Q)
           k == <<loc.sponsor, loc.tier>>
       IN /\ BagCardinality(CourseEntries) = 1
          /\ \A c \in BagToSet(CourseEntries) :
                IF e.earner # None
                THEN /\ c.earner_id = e.earner
                     /\ sess.users[e.earner].balance
                            = db0.users[e.earner].balance + CoursePrice[loc.tier]
                ELSE c.commission_type = "platform"
          /\ \A j \in TrackerKeys(sess) \ {k} : sess.trackers[j] = db0.trackers[j]
          /\ sess.trackers[k] =
                [db0.trackers[k] EXCEPT !.sales_count = @ + 1]

\* The members the walk of loc has visited: the first loc.depth members of
\* the sponsor chain above the sponsor.
RECURSIVE ChainAbove(_, _, _)
ChainAbove(s, cur, n) ==
    IF n = 0 \/ cur = None \/ cur \notin Ids(s) THEN {}
    ELSE {cur} \cup ChainAbove(s, s.users[cur].sponsor_id, n - 1)

Visited == ChainAbove(db0, db0.users[loc.sponsor].sponsor_id, loc.depth)

Untouched(s, u, t) ==
    ~ Tracker(s, u, t).first_passed_up /\ Tracker(s, u, t).sales_count = 0

Consumed(u, t) ==
    /\ Tracker(sess, u, t).first_passed_up
    /\ Tracker(sess, u, t).sales_count = 1
    /\ \A c \in BagToSet(CourseEntries) : c.earner_id # u

\* The first-sale walk of the purchase of loc has ended.
FirstSaleWalked ==
    /\ SaleOfSponsor /\ loc.walked
    /\ ~ Tracker(db0, loc.sponsor, loc.tier).first_passed_up

\* Trackers the walk has to leave alone: those of the visited members that
\* do not own the tier, and those of everybody off the path but the sponsor.
WalkFrame ==
    /\ \A v \in Visited :
          ~ user_owns_tier(db0, v, loc.tier)
          => sess.trackers[<<v, loc.tier>>] = db0.trackers[<<v, loc.tier>>]
    /\ \A k \in TrackerKeys(sess) :
          (k[1] \notin Visited /\ k # <<loc.sponsor, loc.tier>>)
          => sess.trackers[k] = db0.trackers[k]

LapsedUsers ==
    [u \in 1..4 |->
        WalletUser(u, CASE u = 1 -> None [] u = 2 -> 1 [] OTHER -> 2,
                   u = 1, u # 2,
                   CASE u = 1 -> MAX_P2P_AMOUNT [] u = 2 -> 0
                     [] OTHER -> CoursePrice[1],
                   IF u < 3 THEN u ELSE None)]

InitLapsed ==
    /\ db = WalletStore(LapsedUsers,
              << [initialise_renewal_record(2, 0) EXCEPT
                     !.grace_period_start = RENEWAL_DAYS],
                 initialise_renewal_record(3, MaxDay - RENEWAL_DAYS),
                 initialise_renewal_record(4, MaxDay - RENEWAL_DAYS) >>)
    /\ sess = db
    /\ db0 = db
    /\ pc = "idle"
    /\ loc = Idle
    /\ result = Result("none", FALSE, "none", FALSE, None)

SpecLapsed == InitLapsed /\ [][NextWallet]_vars

\* C25: every operation that credits a member who is inactive when the
\* credit arrives runs the activation cascade for that member before it
\* commits: when the operation is over, a member it has credited and who
\* was inactive before is active, or holds less than MEMBERSHIP_FEE.
C25_CreditRunsCascade ==
    pc = "returned" =>
        \A m \in Ids(db0) :
            (/\ ~ db0.users[m].is_active
             /\ db.users[m].total_earned > db0.users[m].total_earned)
            => (db.users[m].is_active \/ db.users[m].balance < MEMBERSHIP_FEE)

\* --------------------------------------------- two requests at a time
\* Every request gets a session of its own from get_db, and the engine
\* runs with the default isolation of the database (read committed).  In
\* the specifications of this section db is the committed store and sess,
\* pc and loc hold one entry per request.  A session is the store as the
\* request sees it (view), the store as it read it (orig), and the keys of
\* the users and tracker rows it has loaded.  A query sees the committed
\* rows and the rows the session has added; a row of users or of the
\* trackers is read from the committed store the first time a query
\* returns it and is served from the session after that.  The flush at
\* db.commit() writes, for every loaded row, the columns whose value the
\* request has changed, and inserts the rows the request has added.
Procs == {1, 2}

NewSession(s) == [view |-> s, orig |-> s, users |-> {}, trackers |-> {}]

\* The session before a query that returns the users rows U and the
\* tracker rows K.
Read(ses, U, K) ==
    [ses EXCEPT
       !.view.users = [u \in Ids(db) |->
                          IF u \in U \ ses.users THEN db.users[u] ELSE @[u]],
       !.orig.users = [u \in Ids(db) |->
                          IF u \in U \ ses.users THEN db.users[u] ELSE @[u]],
       !.users = @ \cup (U \cap Ids(db)),
       !.view.trackers = [k \in DOMAIN db.trackers |->
                             IF k \in K \ ses.trackers THEN db.trackers[k] ELSE @[k]],
       !.orig.trackers = [k \in DOMAIN db.trackers |->
                             IF k \in K \ ses.trackers THEN db.trackers[k] ELSE @[k]],
       !.trackers = @ \cup (K \cap DOMAIN db.trackers),
       !.view.payments = db.payments \cup (ses.view.payments \ ses.orig.payments),
       !.orig.payments = db.payments,
       !.view.purchases = db.purchases (+) (ses.view.purchases (-) ses.orig.purchases),
       !.orig.purchases = db.purchases,
       !.view.course_commissions =
           db.course_commissions
               (+) (ses.view.course_commissions (-) ses.orig.course_commissions),
       !.orig.course_commissions = db.course_commissions]

\* The committed store s after the flush and commit of session ses.  The
\* table of the trackers has no unique key on (user_id, course_tier): when
\* the session has inserted a row for a pair that has one by now, the pair
\* has two rows, and first_row tells which of them later queries get.
Flush(s, ses, first_row) ==
    LET changed(new, old, cur) ==
            [f \in DOMAIN cur |-> IF new[f] # old[f] THEN new[f] ELSE cur[f]]
    IN [s EXCEPT
          !.users = [u \in Ids(s) |->
              IF u \notin ses.users THEN @[u]
              ELSE changed(ses.view.users[u], ses.orig.users[u], @[u])],
          !.trackers = [k \in DOMAIN s.trackers |->
              IF k \notin ses.trackers \/ ses.view.trackers[k] = ses.orig.trackers[k]
              THEN @[k]
              ELSE IF ses.orig.trackers[k].exists
              THEN changed(ses.view.trackers[k], ses.orig.trackers[k], @[k])
              ELSE IF @[k].exists /\ first_row = "committed" THEN @[k]
              ELSE ses.view.trackers[k]],
          !.payments = @ \cup (ses.view.payments \ ses.orig.payments),
          !.purchases = @ (+) (ses.view.purchases (-) ses.orig.purchases),
          !.course_commissions =
              @ (+) (ses.view.course_commissions (-) ses.orig.course_commissions)]

\* process_membership_payment of request p, up to its call of
\* _cascade_auto_activation, for a hash the oracle verifies.
member_begin(p, user_id, tx_hash) ==
    /\ pc[p] = "idle"
    /\ ~ AlreadyProcessed(db, tx_hash)
    /\ user_id \in Ids(db)
    /\ LET sp == db.users[user_id].sponsor_id
           sponsor == IF sp # None /\ sp \in Ids(db) THEN sp ELSE None
           ses == Read(NewSession(db), {user_id, sponsor}, {})
           payment == [tx_hash |-> tx_hash, from_user_id |-> user_id,
                       to_user_id |-> sponsor, amount_usdt |-> MEMBERSHIP_FEE,
                       payment_type |-> "membership", package_tier |-> None]
           s1 == [ses.view EXCEPT !.users[user_id].is_active = TRUE,
                                  !.payments = @ \cup {payment}]
           s2 == IF sponsor # None
                 THEN [Credit(s1, sponsor, MEMBERSHIP_FEE) EXCEPT
                          !.users[sponsor].personal_referrals = @ + 1]
                 ELSE s1
       IN /\ sess' = [sess EXCEPT ![p] = [ses EXCEPT !.view = s2]]
          /\ pc' = [pc EXCEPT ![p] = IF sponsor # None THEN "cascade"
                                     ELSE "member_commit"]
          /\ loc' = [loc EXCEPT ![p] =
                        [op |-> "member", user_id |-> user_id, tx_hash |-> tx_hash,
                         recipient |-> sponsor, chain_depth |-> 1,
                         activated_users |-> << >>]]
    /\ UNCHANGED <<db, db0, result>>

\* One invocation of _cascade_auto_activation in request p.
member_cascade(p) ==
    /\ pc[p] = "cascade"
    /\ LET ses == Read(sess[p],
                       {sess[p].view.users[loc[p].recipient].sponsor_id}, {})
           r == cascade_hop(ses.view, loc[p].recipient, loc[p].tx_hash,
                            loc[p].chain_depth, loc[p].activated_users,
                            MaxDepthCascade)
       IN /\ sess' = [sess EXCEPT ![p] = [ses EXCEPT !.view = r.sess]]
          /\ loc' = [loc EXCEPT ![p].recipient = r.recipient,
                                ![p].chain_depth = r.chain_depth,
                                ![p].activated_users = r.activated_users]
          /\ pc' = [pc EXCEPT ![p] = IF r.done THEN "member_commit" ELSE "cascade"]
    /\ UNCHANGED <<db, db0, result>>

\* db.commit() of the handler of request p, and its return.
commit_request(p) ==
    /\ pc[p] \in {"member_commit", "course_commit"}
    /\ \E first_row \in {"committed", "inserted"} :
          db' = Flush(db, sess[p], first_row)
    /\ pc' = [pc EXCEPT ![p] = "returned"]
    /\ UNCHANGED <<sess, db0, loc, result>>

\* Member 1 is the admin; 2 was referred by 1, 3 and 4 by 2, and 5 by 3.
\* Only the admin has paid its membership.
RaceUsers ==
    [u \in 1..5 |->
        NewUser(CASE u = 1 -> None [] u = 2 -> 1 [] u = 5 -> 3 [] OTHER -> 2,
                u = 1, u = 1, 0)]

InitRace(s) ==
    /\ db = s
    /\ sess = [p \in Procs |-> NewSession(s)]
    /\ db0 = s
    /\ pc = [p \in Procs |-> "idle"]
    /\ loc = [p \in Procs |-> Idle]
    /\ result = Result("none", FALSE, "none", FALSE, None)

\* process_course_purchase of request p for a purchase it accepts, up to
\* the walk of _distribute_commission; first is the test
\* `not tracker.first_passed_up` as the request found it.
course_begin(p, buyer_id, course_id, payment_method) ==
    /\ pc[p] = "idle"
    /\ buyer_id \in Ids(db)
    /\ LET sp == db.users[buyer_id].sponsor_id
           ses == Read(NewSession(db), {buyer_id, sp}, {<<sp, course_id>>})
           price == CoursePrice[course_id]
           purchase == [user_id |-> buyer_id, course_tier |-> course_id,
                        payment_method |-> payment_method, tx_ref |-> None]
           s1 == [ses.view EXCEPT !.purchases = BagAdd(@, purchase)]
           s2 == IF payment_method = "wallet"
                 THEN [s1 EXCEPT !.users[buyer_id].balance = @ - price]
                 ELSE s1
           d == _distribute_commission(s2, buyer_id, course_id, price)
       IN /\ ~ \E q \in BagToSet(ses.view.purchases) :
                  q.user_id = buyer_id /\ q.course_tier = course_id
          /\ payment_method = "wallet" => ses.view.users[buyer_id].balance >= price
          /\ sess' = [sess EXCEPT ![p] = [ses EXCEPT !.view = d.sess]]
          /\ pc' = [pc EXCEPT ![p] = d.pc]
          /\ loc' = [loc EXCEPT ![p] = d.loc @@ [first |-> d.pc = "passup"]]
    /\ UNCHANGED <<db, db0, result>>

\* One iteration of the walk of request p, _find_passup_recipient for a
\* first sale and find_qualified_upline otherwise, and the credit that
\* follows the walk.
course_walk(p) ==
    /\ pc[p] \in {"passup", "upline"}
    /\ LET cur == loc[p].current_id
           t == loc[p].tier
           ses == Read(sess[p], {cur, FirstAdmin(db)}, {<<cur, t>>})
           r == IF pc[p] = "passup"
                THEN passup_hop(ses.view, cur, loc[p].depth, t, MaxDepthWalk)
                ELSE upline_hop(ses.view, cur, loc[p].depth, t, MaxDepthWalk)
           s1 == IF ~ r.done THEN r.sess
                 ELSE IF r.earner # None
                 THEN _credit_earner(r.sess, loc[p].buyer_id, t, r.earner,
                                     CoursePrice[t], "pass_up", r.depth)
                 ELSE _credit_platform(r.sess, loc[p].buyer_id, t, CoursePrice[t])
       IN /\ sess' = [sess EXCEPT ![p] = [ses EXCEPT !.view = s1]]
          /\ loc' = [loc EXCEPT ![p].current_id = r.current_id,
                                ![p].depth = r.depth,
                                ![p].earner = r.earner,
                                ![p].walked = r.done]
          /\ pc' = [pc EXCEPT ![p] = IF r.done THEN "course_commit" ELSE pc[p]]
    /\ UNCHANGED <<db, db0, result>>

\* The store after member 2 has bought course 1: its sponsor, the admin,
\* has no upline, and the platform has taken the price.
OwnerStore ==
    LET purchase == [user_id |-> 2, course_tier |-> 1,
                     payment_method |-> "crypto", tx_ref |-> None]
        s1 == [EmptyStore(RaceUsers) EXCEPT !.purchases = BagAdd(@, purchase)]
    IN _credit_platform(_distribute_commission(s1, 2, 1, CoursePrice[1]).sess,
                        2, 1, CoursePrice[1])

\* Request p carries the hash <<u, p, 0>> of its payer u.
NextRace ==
    \E p \in Procs :
        \/ \E u \in 3..5 : member_begin(p, u, <<u, p, 0>>)
        \/ member_cascade(p)
        \/ \E b \in 3..5, c \in CourseIds : course_begin(p, b, c, "crypto")
        \/ course_walk(p)
        \/ commit_request(p)

SpecRace ==
    /\ \E s \in {EmptyStore(RaceUsers), OwnerStore} : InitRace(s)
    /\ [][NextRace]_vars

\* -------------------------------------------- grid purchases: the split
\* Percentages of database.py for one grid entry, in hundredths.
DIRECT_PCT == 40
PLATFORM_PCT == 5
LEVEL_PCTS == <<15, 10, 8, 6, 5, 4, 4, 3>>

\* C21: a seat fill of price P at once records and pays DIRECT_PCT * P to
\* the occupant's sponsor, LEVEL_PCTS[k] * P to the member k sponsor hops
\* above the occupant for each k in 1..8, and to the platform PLATFORM_PCT
\* * P and the shares of the levels beyond the end of the sponsor chain.
C21_SeatFillSplit ==
    (loc.op = "grid" /\ loc.place.success)
        => LET u == loc.user_id
               P == GridPrice(loc.package_tier)
               up[k \in 0..GRID_LEVELS] ==
                   IF k = 0 THEN u
                   ELSE IF up[k - 1] \in Ids(db0)
                        THEN db0.users[up[k - 1]].sponsor_id ELSE None
               due(m) == (IF up[1] = m THEN MulPct(P, DIRECT_PCT, 100) ELSE 0)
                         + SumOver(1..GRID_LEVELS,
                               [k \in 1..GRID_LEVELS |->
                                   IF up[k] = m THEN MulPct(P, LEVEL_PCTS[k], 100)
                                   ELSE 0])
               paid == GridEventCommissions
               to(m) == SumOver(BagToSet(paid),
                            [e \in BagToSet(paid) |->
                                IF e.to_user_id = m
                                THEN e.amount_usdt * CopiesIn(e, paid) ELSE 0])
           IN /\ \A m \in Ids(db0) :
                    /\ to(m) = due(m)
                    /\ db.users[m].balance = db0.users[m].balance + due(m)
              /\ to(None) = P - SumOver(Ids(db0), [m \in Ids(db0) |-> due(m)])

\* C22: a seat fill that brings its grid to capacity records no commission
\* entry and changes no member's balance beyond what the per-seat
\* distribution of that fill records and pays.
C22_CompletionPaysNothing ==
    (loc.op = "grid" /\ loc.place.success /\ loc.place.complete)
        => LET seat == _pay_level_commission(db0, loc.place.grid_id,
                           loc.place.grid_level, GridPrice(loc.package_tier))
           IN /\ db.commissions = seat.commissions
              /\ \A m \in Ids(db0) : db.users[m].balance = seat.users[m].balance

\* C23: in every reachable state and for every grid, the amounts of the
\* commission entries recorded against the grid (level pool payments and
\* the completion payments to owner, upline and company) add up to at most
\* the grid's revenue_total, and to exactly revenue_total once the grid is
\* complete.
C23_GridPaysItsRevenue ==
    \A g \in GridIds(db) :
        LET of == BagToSet(db.commissions)
            paid == SumOver(of, [e \in of |->
                        IF e.grid_id = g
                        THEN e.amount_usdt * CopiesIn(e, db.commissions) ELSE 0])
        IN /\ paid <= db.grids[g].revenue_total
           /\ db.grids[g].is_complete => paid = db.grids[g].revenue_total

\* C24: one invocation of _cascade_auto_activation leaves a recipient that
\* is active unchanged and ends the cascade; it debits an inactive
\* recipient whose balance is at least MEMBERSHIP_FEE by exactly the fee
\* and sets it active, adds exactly one membership_auto row keyed by the
\* hash and the current depth, credits the fee to the recipient's sponsor
\* if there is one and to nobody otherwise, and goes on with that sponsor
\* one level deeper; it leaves an inactive recipient whose balance is below
\* the fee unchanged and ends the cascade.
C24_CascadeHop ==
    [][pc = "cascade" =>
        LET r == loc.recipient
            d == loc.chain_depth
            sp == sess.users[r].sponsor_id
            sponsor == IF sp # None /\ sp \in Ids(sess) THEN sp ELSE None
            rows == sess'.payments \ sess.payments
        IN IF sess.users[r].is_active \/ sess.users[r].balance < MEMBERSHIP_FEE
           THEN sess' = sess /\ pc' # "cascade"
           ELSE /\ \A m \in Ids(sess) :
                      /\ sess'.users[m].balance = sess.users[m].balance
                            - (IF m = r THEN MEMBERSHIP_FEE ELSE 0)
                            + (IF m = sponsor THEN MEMBERSHIP_FEE ELSE 0)
                      /\ sess'.users[m].is_active
                            = (m = r \/ sess.users[m].is_active)
                /\ sess.payments \subseteq sess'.payments
                /\ Cardinality(rows) = 1
                /\ \A p \in rows :
                      /\ p.payment_type = "membership_auto"
                      /\ p.tx_hash = <<loc.tx_hash[1], loc.tx_hash[2], d>>
                      /\ p.from_user_id = r /\ p.to_user_id = sponsor
                      /\ p.amount_usdt = MEMBERSHIP_FEE
                /\ IF sponsor # None
                   THEN /\ pc' = "cascade" /\ loc'.recipient = sponsor
                        /\ loc'.chain_depth = d + 1
                   ELSE pc' # "cascade"]_vars

\* C24 as amended: the same, for an invocation at a depth of at most
\* max_depth; an invocation deeper than max_depth leaves every recipient
\* unchanged and ends the cascade.
C24_CascadeHopWithinDepth ==
    [][pc = "cascade" =>
        LET r == loc.recipient
            d == loc.chain_depth
            sp == sess.users[r].sponsor_id
            sponsor == IF sp # None /\ sp \in Ids(sess) THEN sp ELSE None
            rows == sess'.payments \ sess.payments
        IN IF \/ d > MaxDepthCascade
              \/ sess.users[r].is_active \/ sess.users[r].balance < MEMBERSHIP_FEE
           THEN sess' = sess /\ pc' # "cascade"
           ELSE /\ \A m \in Ids(sess) :
                      /\ sess'.users[m].balance = sess.users[m].balance
                            - (IF m = r THEN MEMBERSHIP_FEE ELSE 0)
                            + (IF m = sponsor THEN MEMBERSHIP_FEE ELSE 0)
                      /\ sess'.users[m].is_active
                            = (m = r \/ sess.users[m].is_active)
                /\ sess.payments \subseteq sess'.payments
                /\ Cardinality(rows) = 1
                /\ \A p \in rows :
                      /\ p.payment_type = "membership_auto"
                      /\ p.tx_hash = <<loc.tx_hash[1], loc.tx_hash[2], d>>
                      /\ p.from_user_id = r /\ p.to_user_id = sponsor
                      /\ p.amount_usdt = MEMBERSHIP_FEE
                /\ IF sponsor # None
                   THEN /\ pc' = "cascade" /\ loc'.recipient = sponsor
                        /\ loc'.chain_depth = d + 1
                   ELSE pc' # "cascade"]_vars

\* A cascade that has activated two members in a row and stands at the
\* third, which is still free and holds the fee it has just been credited.
C24_Witness ==
    /\ pc = "cascade" /\ loc.chain_depth = 3
    /\ Len(loc.activated_users) = 2
    /\ ~ sess.users[loc.recipient].is_active
    /\ sess.users[loc.recipient].balance >= MEMBERSHIP_FEE
    /\ Cardinality(PaymentsOf(sess, "membership_auto")) = 2

\* C26: when two membership payments whose cascades reach the same
\* inactive member are processed at the same time, each in its own
\* transaction and in any interleaving, the member is activated by at most
\* one of the cascades and is debited the fee at most once.
C26_ActivatedOnce ==
    \A m \in Ids(db) :
        /\ Cardinality({p \in Procs :
               /\ pc[p] = "returned" /\ loc[p].op = "member"
               /\ \E i \in DOMAIN loc[p].activated_users :
                     loc[p].activated_users[i][1] = m}) <= 1
        /\ Cardinality({r \in PaymentsOf(db, "membership_auto") :
               r.from_user_id = m}) <= 1

\* C27: when two purchases of the same tier by different buyers who have
\* the same sponsor, a sponsor without a sale at that tier so far, are
\* processed at the same time in any interleaving, exactly one of them is
\* treated as the sponsor's first sale at the tier, and the sponsor's
\* sales_count for the tier ends 2 higher.
C27_OneFirstSale ==
    (/\ \A p \in Procs : pc[p] = "returned" /\ loc[p].op = "course"
     /\ loc[1].buyer_id # loc[2].buyer_id
     /\ loc[1].sponsor = loc[2].sponsor
     /\ loc[1].tier = loc[2].tier
     /\ Tracker(db0, loc[1].sponsor, loc[1].tier).sales_count = 0)
    => /\ Cardinality({p \in Procs : loc[p].first}) = 1
       /\ Tracker(db, loc[1].sponsor, loc[1].tier).sales_count = 2

\* What a sweep at time now does to the members who are active, not in
\* grace and due, with the next renewal date counted from the time of the
\* sweep (from_now) or from the date it replaces.  A member's balance at
\* its turn is its balance before the sweep plus the fees of the members
\* renewed before it in the sweep.
RenewalDueAt(now, from_now) ==
    LET R == DOMAIN sess.renewals
        row(i) == sess.renewals[i]
        due(i) == /\ row(i).user_id \in Ids(sess)
                  /\ sess.users[row(i).user_id].is_active
                  /\ ~ row(i).in_grace_period
                  /\ now >= row(i).next_renewal_date
        renewed(i) == due(i) /\ sess'.renewals[i].total_renewals
                                   = row(i).total_renewals + 1
        fees(m, I) == MEMBERSHIP_FEE * Cardinality({j \in I :
                          renewed(j) /\ sess.users[row(j).user_id].sponsor_id = m})
        entries(u) ==
            LET new == BagNew(sess'.commissions, sess.commissions)
            IN SumOver(BagToSet(new), [e \in BagToSet(new) |->
                   IF e.commission_type = "membership_renewal" /\ e.from_user_id = u
                   THEN CopiesIn(e, new) ELSE 0])
    IN /\ now >= LastStamp(sess)
       /\ \A i \in R : due(i) =>
             LET u == row(i).user_id
                 covers == sess.users[u].balance + fees(u, 1..(i - 1))
                               >= MEMBERSHIP_FEE
             IN IF covers
                THEN /\ renewed(i)
                     /\ entries(u) = 1
                     /\ sess'.renewals[i].next_renewal_date
                           = RENEWAL_DAYS + (IF from_now THEN now
                                             ELSE row(i).next_renewal_date)
                     /\ ~ sess'.renewals[i].in_grace_period
                ELSE /\ sess'.renewals[i].total_renewals = row(i).total_renewals
                     /\ entries(u) = 0
                     /\ sess'.renewals[i].in_grace_period
                     /\ sess'.renewals[i].grace_period_start = now
       /\ \A m \in Ids(sess) :
             sess'.users[m].balance
                = sess.users[m].balance + fees(m, R)
                  - (IF \E i \in R : row(i).user_id = m /\ renewed(i)
                     THEN MEMBERSHIP_FEE ELSE 0)

\* C28: in a renewal sweep, for an active member who is not in grace and
\* whose next_renewal_date has been reached: if the balance covers the fee,
\* the fee is debited from the member and credited to the sponsor (to
\* nobody when there is none), exactly one membership_renewal entry is
\* recorded, total_renewals rises by 1 and next_renewal_date moves to its
\* previous value plus RENEWAL_DAYS; otherwise no money moves and the
\* member enters grace, with in_grace_period set and grace_period_start =
\* now.
C28_RenewalDue ==
    [][(pc = "idle" /\ pc' = "returned" /\ loc'.op = "renewals")
          => RenewalDueAt(loc'.now, FALSE)]_vars

\* C28 as amended: the same, with next_renewal_date set to the time of the
\* sweep plus RENEWAL_DAYS.
C28_RenewalDueFromNow ==
    [][(pc = "idle" /\ pc' = "returned" /\ loc'.op = "renewals")
          => RenewalDueAt(loc'.now, TRUE)]_vars

\* A sweep that came after the due date has renewed member 2, whose sponsor
\* got the fee, and member 1, who has no sponsor.
C28_Witness ==
    /\ pc = "returned" /\ loc.op = "renewals"
    /\ \A i \in {1, 2} :
          /\ db.renewals[i].user_id = i
          /\ db.renewals[i].total_renewals = db0.renewals[i].total_renewals + 1
          /\ db.renewals[i].last_renewed_at > db0.renewals[i].next_renewal_date
    /\ db.users[2].sponsor_id = 1 /\ db.users[1].sponsor_id = None
    /\ db.users[2].balance = db0.users[2].balance - MEMBERSHIP_FEE
    /\ db.users[1].balance = db0.users[1].balance

\* C29: a renewal sweep at time now deactivates a member in grace, and
\* clears the grace flag, when now >= grace_period_start + GRACE_DAYS,
\* whatever the balance, and leaves the member active and in grace when now
\* is earlier; it deactivates nobody else, so no member who was not in
\* grace before the sweep, and none whose grace the sweep started.
C29_GraceLapse ==
    [][(pc = "idle" /\ pc' = "returned" /\ loc'.op = "renewals")
          => LET now == loc'.now
                 R == DOMAIN sess.renewals
                 row(i) == sess.renewals[i]
                 ingrace(u) == {i \in R : row(i).user_id = u /\ row(i).in_grace_period}
             IN /\ \A i \in R :
                     (row(i).user_id \in Ids(sess) /\ row(i).in_grace_period) =>
                        LET u == row(i).user_id
                        IN IF now >= row(i).grace_period_start + GRACE_DAYS
                           THEN /\ ~ sess'.users[u].is_active
                                /\ ~ sess'.renewals[i].in_grace_period
                           ELSE /\ sess'.users[u].is_active = sess.users[u].is_active
                                /\ sess'.renewals[i].in_grace_period
                /\ \A u \in Ids(sess) :
                     ingrace(u) = {} => sess'.users[u].is_active = sess.users[u].is_active
                /\ \A i \in R :
                     (~ row(i).in_grace_period /\ sess'.renewals[i].in_grace_period)
                        => /\ sess'.renewals[i].grace_period_start = now
                           /\ sess'.users[row(i).user_id].is_active]_vars

\* The sweep that ran exactly GRACE_DAYS after member 2 entered grace has
\* deactivated it, although it holds the fee by then.
C29_Witness ==
    /\ pc = "returned" /\ loc.op = "renewals"
    /\ db0.renewals[2].user_id = 2 /\ db0.renewals[2].in_grace_period
    /\ db0.users[2].is_active
    /\ db0.users[2].balance >= MEMBERSHIP_FEE
    /\ loc.now = db0.renewals[2].grace_period_start + GRACE_DAYS
    /\ ~ db.users[2].is_active
    /\ ~ db.renewals[2].in_grace_period

\* C30: a process_grid_payment call whose payment verified and whose
\* placement, in the sponsor's grid or through overspill, succeeded returns
\* a result with success = TRUE and does not end in an error after its
\* commit.
C30_GridPlacedReturnsSuccess ==
    (pc = "returned" /\ loc.op = "grid" /\ result.op = "grid"
        /\ "place" \in DOMAIN loc /\ loc.place.success
        /\ result.error # "crash")
    => (result.success /\ ~ result.raised /\ result.error = "none")

====
